---- MODULE Spec2Model ----
(***************************************************************************)
(* Model of the sleep-monitoring program in three parts, each with its    *)
(* own variables and specifications:                                       *)
(*   - the metrics core (src/sleep_monitoring/metrics.py) as the review    *)
(*     dashboard drives it: Spec, HrSpec, TiesSpec;                        *)
(*   - compute_sleep_date (src/sleep_monitoring/data_io.py):               *)
(*     SleepDateSpec;                                                      *)
(*   - the SQLite store (db.py, data_io.py) shared by the live logger      *)
(*     (logger_service.py), the CSV migration                              *)
(*     (src/scripts/migrate_csv_to_db.py) and the dashboard: StoreSpec.    *)
(*                                                                         *)
(* Units.  Timestamps are whole seconds in the source data; the estimated  *)
(* sample interval is a median of integer deltas and so a multiple of      *)
(* 0.5 s.  Every time and duration below is therefore an integer number of *)
(* half-second ticks (Sec(s) = 2*s), which keeps the float arithmetic of   *)
(* the source exact.  Float quotients (mean_spo2, odi, fraction) are       *)
(* reduced fractions <<numerator, denominator>>.                           *)
(*                                                                         *)
(* A DataFrame is the sequence of its rows in the caller's order; a row is *)
(* [timestamp_local, spo2, hr] with NaN for a null reading.  The pi,       *)
(* movement and battery columns take no part in the metrics and are not    *)
(* carried.  A null column is a float column of NaN, as read_csv and a     *)
(* partly filled database column give it.                                  *)
(***************************************************************************)
EXTENDS Integers, Sequences, FiniteSets, TLC

\* ---------------------------------------------------------------- bounds

\* Longest DataFrame the model builds.
MaxLen == 5

\* Longest DataFrame whose hr column varies (HrSpec), and longest DataFrame
\* with repeated timestamps (TiesSpec).
MaxHrLen == 3
MaxTieLen == 4

\* Seconds to half-second ticks.
Sec(s) == 2 * s

\* A null SpO2 reading (pandas NaN); never a valid percentage.
NaN == -1

\* SpO2 readings a sample may carry.
SpO2Values == {88, 90}

\* Heart-rate readings a sample may carry.
HrValues == {60, 70}

\* Seconds between a row and the row the caller added before it: the next
\* reading 5 s later, or a reading that is 4 s older (a frame that is not in
\* time order).  Frames of up to nine rows then hold no two equal
\* timestamps, and their sorted spacing is irregular (1 s to 5 s).
Deltas == {5, -4}

\* Slider positions of the review page the model exercises.
Thresholds == {90, 91}
MinDurations == {Sec(0), Sec(5), Sec(8)}

\* ------------------------------------------------------------ arithmetic

RECURSIVE GCD(_, _)
GCD(a, b) == IF b = 0 THEN a ELSE GCD(b, a % b)

\* Float quotient n / d (d > 0, n >= 0) as a reduced fraction.
Quot(n, d) == LET g == GCD(n, d) IN <<n \div g, d \div g>>

RECURSIVE SumSeq(_)
SumSeq(s) == IF s = <<>> THEN 0 ELSE Head(s) + SumSeq(Tail(s))

RECURSIVE MinSeq(_)
MinSeq(s) ==
    IF Len(s) = 1 THEN Head(s)
    ELSE LET m == MinSeq(Tail(s)) IN IF Head(s) < m THEN Head(s) ELSE m

\* ------------------------------------------------------------- DataFrame

\* Insert x into the ascending sequence s after every element that is not
\* greater (insertion sort step; keeps equal keys in arrival order).
RECURSIVE InsertInt(_, _)
InsertInt(x, s) ==
    IF s = <<>> THEN <<x>>
    ELSE IF x < Head(s) THEN <<x>> \o s
    ELSE <<Head(s)>> \o InsertInt(x, Tail(s))

RECURSIVE SortInts(_)
SortInts(s) ==
    IF s = <<>> THEN <<>>
    ELSE InsertInt(s[Len(s)], SortInts(SubSeq(s, 1, Len(s) - 1)))

RECURSIVE InsertRow(_, _)
InsertRow(r, s) ==
    IF s = <<>> THEN <<r>>
    ELSE IF r.timestamp_local < Head(s).timestamp_local THEN <<r>> \o s
    ELSE <<Head(s)>> \o InsertRow(r, Tail(s))

\* df.sort_values("timestamp_local").  For the frame sizes of the model
\* (fewer than 17 rows) numpy's default sort is an insertion sort: rows
\* with equal timestamps keep the caller's order.
RECURSIVE sort_values(_)
sort_values(df) ==
    IF df = <<>> THEN <<>>
    ELSE InsertRow(df[Len(df)], sort_values(SubSeq(df, 1, Len(df) - 1)))

\* df.dropna(subset=["spo2", "timestamp_local"]); timestamps of stored
\* samples are never null.
dropna(df) == SelectSeq(df, LAMBDA r : r.spo2 # NaN)

\* Mutant of below: the comparison inverted.
below_inverted(r, threshold) == r.spo2 # NaN /\ r.spo2 >= threshold

\* df["spo2"] < threshold for one row; a comparison with NaN is False.
below(r, threshold) == r.spo2 # NaN /\ r.spo2 < threshold

\* df["timestamp_local"].diff().dropna().dt.total_seconds()
diff(df) ==
    [i \in 1..(Len(df) - 1) |->
        df[i + 1].timestamp_local - df[i].timestamp_local]

\* Series.median(): the middle value, or the mean of the two middle values.
median(s) ==
    LET o == SortInts(s)
        n == Len(o)
    IN  IF n % 2 = 1 THEN o[(n + 1) \div 2]
        ELSE (o[n \div 2] + o[n \div 2 + 1]) \div 2

\* Mutant of _estimate_sample_interval: the mean of the deltas, not the
\* median.
_estimate_sample_interval_mean(df) ==
    IF Len(df) < 2 THEN 0 ELSE SumSeq(diff(df)) \div (Len(df) - 1)

\* Variant that falls back to a nominal 2 s cadence when fewer than two
\* samples give no delta.
_estimate_sample_interval_nominal(df) ==
    IF Len(df) < 2 THEN Sec(2) ELSE median(diff(df))

_estimate_sample_interval(df) ==
    IF Len(df) < 2 THEN 0 ELSE median(diff(df))

\* below.ne(below.shift()).cumsum() followed by groupby("group"): the
\* maximal runs of rows with one classification, in order, as index pairs.
RECURSIVE RunEnd(_, _, _)
RunEnd(df, threshold, i) ==
    IF i < Len(df) /\ below(df[i + 1], threshold) = below(df[i], threshold)
    THEN RunEnd(df, threshold, i + 1)
    ELSE i

RECURSIVE GroupsFrom(_, _, _)
GroupsFrom(df, threshold, i) ==
    IF i > Len(df) THEN <<>>
    ELSE LET j == RunEnd(df, threshold, i)
         IN  <<[first |-> i, last |-> j]>> \o GroupsFrom(df, threshold, j + 1)

groupby(df, threshold) == GroupsFrom(df, threshold, 1)

\* The groups whose first row is below threshold.
BelowGroups(df, threshold) ==
    SelectSeq(groupby(df, threshold),
              LAMBDA g : below(df[g.first], threshold))

\* Mutants of Discarded: the comparison reversed; the boundary discarded.
Discarded_reversed(duration, min_duration_sec) == duration > min_duration_sec
Discarded_inclusive(duration, min_duration_sec) == duration <= min_duration_sec

\* if duration < min_duration_sec: continue
Discarded(duration, min_duration_sec) == duration < min_duration_sec

\* Variant whose event ends at its last sample while its duration still
\* includes the sample interval.
Event_ends_at_last_sample(df, g, sample_interval) ==
    LET start_time == df[g.first].timestamp_local
        end_time == df[g.last].timestamp_local
        spo2 == [i \in 1..(g.last - g.first + 1) |-> df[g.first + i - 1].spo2]
    IN  [start_time_local |-> start_time,
         end_time_local |-> end_time,
         duration_sec |-> (end_time - start_time) + sample_interval,
         nadir_spo2 |-> MinSeq(spo2),
         mean_spo2 |-> Quot(SumSeq(spo2), Len(spo2))]

\* One event of compute_desaturations from the group g of df.
Event(df, g, sample_interval) ==
    LET start_time == df[g.first].timestamp_local
        end_time == df[g.last].timestamp_local
        spo2 == [i \in 1..(g.last - g.first + 1) |-> df[g.first + i - 1].spo2]
    IN  [start_time_local |-> start_time,
         end_time_local |-> end_time + sample_interval,
         duration_sec |-> (end_time - start_time) + sample_interval,
         nadir_spo2 |-> MinSeq(spo2),
         mean_spo2 |-> Quot(SumSeq(spo2), Len(spo2))]

\* Mutant of compute_desaturations: the null rows are not dropped.
compute_desaturations_keeps_nulls(df, threshold, min_duration_sec) ==
    IF df = <<>> THEN <<>>
    ELSE LET df_sorted == sort_values(df)
             sample_interval == _estimate_sample_interval(df_sorted)
             groups == BelowGroups(df_sorted, threshold)
             events == [k \in 1..Len(groups) |->
                           Event(df_sorted, groups[k], sample_interval)]
         IN  SelectSeq(events,
                 LAMBDA e : ~Discarded(e.duration_sec, min_duration_sec))

compute_desaturations(df, threshold, min_duration_sec) ==
    IF df = <<>> THEN <<>>
    ELSE LET df_sorted == dropna(sort_values(df))
         IN  IF df_sorted = <<>> THEN <<>>
             ELSE LET sample_interval == _estimate_sample_interval(df_sorted)
                      groups == BelowGroups(df_sorted, threshold)
                      events == [k \in 1..Len(groups) |->
                                    Event(df_sorted, groups[k], sample_interval)]
                  IN  SelectSeq(events,
                          LAMBDA e : ~Discarded(e.duration_sec, min_duration_sec))

\* Mutant of analysed_duration_seconds: first to last non-null sample.
analysed_duration_seconds_non_null(df) ==
    IF dropna(df) = <<>> THEN 0
    ELSE LET df_sorted == sort_values(dropna(df))
         IN  df_sorted[Len(df_sorted)].timestamp_local
                 - df_sorted[1].timestamp_local

analysed_duration_seconds(df) ==
    IF df = <<>> THEN 0
    ELSE LET df_sorted == sort_values(df)
         IN  df_sorted[Len(df_sorted)].timestamp_local
                 - df_sorted[1].timestamp_local

compute_time_below_threshold(df, threshold) ==
    IF df = <<>>
    THEN [total_seconds_below |-> 0, fraction_of_analysed_time |-> <<0, 1>>]
    ELSE LET df_sorted == sort_values(df)
             sample_interval == _estimate_sample_interval(df_sorted)
             groups == BelowGroups(df_sorted, threshold)
             total_below ==
                 SumSeq([k \in 1..Len(groups) |->
                     (df_sorted[groups[k].last].timestamp_local
                        - df_sorted[groups[k].first].timestamp_local)
                     + sample_interval])
             analysed_duration == analysed_duration_seconds(df_sorted)
         IN  [total_seconds_below |-> total_below,
              fraction_of_analysed_time |->
                  IF analysed_duration # 0
                  THEN Quot(total_below, analysed_duration)
                  ELSE <<0, 1>>]

\* ODI from the event count; analysed_duration_hours is carried as the
\* analysed seconds (hours = seconds / 3600.0), so the quotient is
\* count * 3600 / seconds.
compute_odi(events_df, analysed_seconds) ==
    IF analysed_seconds <= 0 THEN <<0, 1>>
    ELSE Quot(Len(events_df) * Sec(3600), analysed_seconds)

\* Variant that takes the hr readings of the rows left by dropna on spo2.
HrReadings_after_dropna(df) ==
    LET rows == SelectSeq(dropna(df), LAMBDA r : r.hr # NaN)
    IN  [i \in 1..Len(rows) |-> rows[i].hr]

\* df["hr"] without its null readings (min and mean skip NaN).
HrReadings(df) ==
    LET rows == SelectSeq(df, LAMBDA r : r.hr # NaN)
    IN  [i \in 1..Len(rows) |-> rows[i].hr]

\* The record summarize_session returns for a non-empty frame.  None is
\* NaN for a minimum and <<>> for a mean.
SummaryRecord(df_sorted, analysed_seconds, desats, below_stats) ==
    LET spo2 == [i \in 1..Len(dropna(df_sorted)) |-> dropna(df_sorted)[i].spo2]
        hr == HrReadings(df_sorted)
    IN  [analysed_duration_hours |-> Quot(analysed_seconds, Sec(3600)),
         spo2_min |-> IF spo2 # <<>> THEN MinSeq(spo2) ELSE NaN,
         spo2_mean |-> IF spo2 # <<>> THEN Quot(SumSeq(spo2), Len(spo2))
                                      ELSE <<>>,
         hr_min |-> IF hr # <<>> THEN MinSeq(hr) ELSE NaN,
         hr_mean |-> IF hr # <<>> THEN Quot(SumSeq(hr), Len(hr)) ELSE <<>>,
         time_below_threshold_sec |-> below_stats.total_seconds_below,
         time_below_threshold_fraction |->
             below_stats.fraction_of_analysed_time,
         events_count |-> Len(desats),
         odi |-> compute_odi(desats, analysed_seconds)]

\* Variant whose empty-session record reports zeros in place of None.
EmptySummary_zeros ==
    [analysed_duration_hours |-> <<0, 1>>,
     spo2_min |-> 0,
     spo2_mean |-> <<0, 1>>,
     hr_min |-> 0,
     hr_mean |-> <<0, 1>>,
     time_below_threshold_sec |-> 0,
     time_below_threshold_fraction |-> <<0, 1>>,
     events_count |-> 0,
     odi |-> <<0, 1>>]

\* The summary of an empty frame; None is NaN for spo2_min and <<>> for
\* spo2_mean.
EmptySummary ==
    [analysed_duration_hours |-> <<0, 1>>,
     spo2_min |-> NaN,
     spo2_mean |-> <<>>,
     hr_min |-> NaN,
     hr_mean |-> <<>>,
     time_below_threshold_sec |-> 0,
     time_below_threshold_fraction |-> <<0, 1>>,
     events_count |-> 0,
     odi |-> <<0, 1>>]

\* Mutant of summarize_session: the events are counted before the
\* minimum-duration filter.
summarize_session_unfiltered(df, threshold, min_duration_sec) ==
    IF df = <<>> THEN EmptySummary
    ELSE LET df_sorted == sort_values(df)
         IN  SummaryRecord(df_sorted,
                           analysed_duration_seconds(df_sorted),
                           compute_desaturations(df_sorted, threshold, 0),
                           compute_time_below_threshold(df_sorted, threshold))

\* Variant whose time below threshold is the total duration of the events
\* that pass the minimum-duration filter.
summarize_session_events_total(df, threshold, min_duration_sec) ==
    IF df = <<>> THEN EmptySummary
    ELSE LET df_sorted == sort_values(df)
             analysed == analysed_duration_seconds(df_sorted)
             events == compute_desaturations(df_sorted, threshold,
                                             min_duration_sec)
             total == SumSeq([k \in 1..Len(events) |-> events[k].duration_sec])
         IN  SummaryRecord(df_sorted, analysed, events,
                 [total_seconds_below |-> total,
                  fraction_of_analysed_time |->
                      IF analysed # 0 THEN Quot(total, analysed)
                      ELSE <<0, 1>>])

summarize_session(df, threshold, min_duration_sec) ==
    IF df = <<>> THEN EmptySummary
    ELSE LET df_sorted == sort_values(df)
         IN  SummaryRecord(df_sorted,
                           analysed_duration_seconds(df_sorted),
                           compute_desaturations(df_sorted, threshold,
                                                 min_duration_sec),
                           compute_time_below_threshold(df_sorted, threshold))

\* ------------------------------------------------------------ sleep date

(* A datetime is [wall, tzinfo]: wall is the wall-clock reading in whole   *)
(* seconds counted from 2024-03-08T00:00:00, tzinfo is <<>> for a naive    *)
(* datetime and <<utcoffset>> (seconds) for an aware one.  A date is the   *)
(* number of days since 2024-03-08.                                        *)

Hour == 3600
Day == 24 * Hour

\* Last day (UTC) from which the model draws instants.
MaxDay == 3

\* The utcoffset of config.TIMEZONE = "America/Chicago" at a UTC instant:
\* CST until 2024-03-10T08:00:00Z, CDT from then on.
DstStart == 2 * Day + 8 * Hour
UtcOffset(instant) == IF instant < DstStart THEN -(6 * Hour) ELSE -(5 * Hour)

\* time(hour=12, minute=1) as seconds of the day.
Cutoff == 12 * Hour + 60

\* The UTC instant an aware datetime denotes.
Instant(d) == d.wall - d.tzinfo[1]

\* dt_utc.astimezone(LOCAL_TZ), as the local wall-clock reading.
astimezone(d) == Instant(d) + UtcOffset(Instant(d))

\* Variant whose cutoff comparison is inclusive.
compute_sleep_date_inclusive(dt_utc) ==
    LET aware == IF dt_utc.tzinfo = <<>>
                 THEN [dt_utc EXCEPT !.tzinfo = <<0>>] ELSE dt_utc
        dt_local == astimezone(aware)
    IN  IF dt_local % Day <= Cutoff
        THEN (dt_local - Day) \div Day
        ELSE dt_local \div Day

compute_sleep_date(dt_utc) ==
    LET aware == IF dt_utc.tzinfo = <<>>
                 THEN [dt_utc EXCEPT !.tzinfo = <<0>>] ELSE dt_utc
        dt_local == astimezone(aware)
    IN  IF dt_local % Day < Cutoff
        THEN (dt_local - Day) \div Day
        ELSE dt_local \div Day

\* The datetimes the model passes to compute_sleep_date: every hour of
\* days 1..MaxDay, at the minutes and seconds around a cutoff, naive,
\* tagged UTC or tagged +01:00.
Walls ==
    {d * Day + h * Hour + m * 60 + sec :
        d \in 1..MaxDay, h \in 0..23, m \in {0, 1, 2, 59}, sec \in {0, 59}}
TzInfos == {<<>>, <<0>>, <<Hour>>}
Datetimes == [wall : Walls, tzinfo : TzInfos]

\* ----------------------------------------------------------------- state

VARIABLES
    df,                 \* the caller's DataFrame: its rows in caller order
    fn,                 \* the metrics function last called on df
    threshold,          \* the threshold argument of that call
    min_duration_sec,   \* the min_duration_sec argument of that call
    desats,             \* the events compute_desaturations returned
    below_stats,        \* what compute_time_below_threshold returned
    summary             \* what summarize_session returned

vars == <<df, fn, threshold, min_duration_sec, desats, below_stats, summary>>

VARIABLES
    dt,                 \* the argument of the last compute_sleep_date call
    sleep_date          \* the date that call returned

date_vars == <<dt, sleep_date>>

VARIABLES
    sessions,           \* table sessions
    samples,            \* table samples
    touched,            \* <<sleep_date, id>> for every id touch_session returned
    logger,             \* the live logger process
    migration,          \* the CSV migration process
    reader,             \* a dashboard callback in load_session_samples
    csv                 \* the logger's CSV backup: open file and directory

store_vars == <<sessions, samples, touched, logger, migration, reader, csv>>

VARIABLES
    ble_pc,                     \* where the main loop of viatom-ble.py is
    ble_fail_count,             \* global ble_fail_count
    ble_next_reconnect_delay,   \* global ble_next_reconnect_delay
    peripheral,                 \* whether the peripheral is connected
    ble_seen                    \* bookkeeping on the notifications and waits

ble_vars ==
    <<ble_pc, ble_fail_count, ble_next_reconnect_delay, peripheral, ble_seen>>

VARIABLES
    events_sleep_date,  \* value of the dropdown events-sleep-date
    events_threshold,   \* value of the input events-threshold
    events_duration,    \* value of the input events-duration
    events_index,       \* value and max of the slider events-index
    events_shown,       \* what update_events_tab last returned
    stepped             \* the last call of step_events and its result

nav_vars ==
    <<events_sleep_date, events_threshold, events_duration, events_index,
      events_shown, stepped>>

\* The programs beside the core, the logger and the migration.
peer_vars == <<ble_vars, nav_vars>>

all_vars == <<vars, date_vars, store_vars, peer_vars>>


NoStats == [total_seconds_below |-> 0, fraction_of_analysed_time |-> <<0, 1>>]
NoSummary == EmptySummary

Init ==
    /\ df = <<>>
    /\ fn = "none"
    /\ threshold = 0
    /\ min_duration_sec = 0
    /\ desats = <<>>
    /\ below_stats = NoStats
    /\ summary = NoSummary

\* The caller adds a row to the frame it holds, between two calls: delta
\* seconds after the row added before it, the first row at 0.
AppendSample(delta, spo2, hr) ==
    /\ fn = "none"
    /\ Len(df) < MaxLen
    /\ LET ts == IF df = <<>> THEN 0
                 ELSE df[Len(df)].timestamp_local + Sec(delta)
       IN  df' = Append(df, [timestamp_local |-> ts, spo2 |-> spo2,
                             hr |-> hr])
    /\ UNCHANGED <<fn, threshold, min_duration_sec, desats, below_stats, summary>>
    /\ UNCHANGED <<date_vars, store_vars, peer_vars>>

\* The calls are synchronous: one is made on the frame at a time, and its
\* result is held until the caller is done with it (Return).
ComputeDesaturations(t, m) ==
    /\ fn = "none"
    /\ fn' = "compute_desaturations"
    /\ threshold' = t
    /\ min_duration_sec' = m
    /\ desats' = compute_desaturations(df, t, m)
    /\ UNCHANGED <<df, below_stats, summary>>
    /\ UNCHANGED <<date_vars, store_vars, peer_vars>>

ComputeTimeBelowThreshold(t) ==
    /\ fn = "none"
    /\ fn' = "compute_time_below_threshold"
    /\ threshold' = t
    /\ below_stats' = compute_time_below_threshold(df, t)
    /\ UNCHANGED <<df, min_duration_sec, desats, summary>>
    /\ UNCHANGED <<date_vars, store_vars, peer_vars>>

SummarizeSession(t, m) ==
    /\ fn = "none"
    /\ fn' = "summarize_session"
    /\ threshold' = t
    /\ min_duration_sec' = m
    /\ summary' = summarize_session(df, t, m)
    /\ UNCHANGED <<df, desats, below_stats>>
    /\ UNCHANGED <<date_vars, store_vars, peer_vars>>

Return ==
    /\ fn # "none"
    /\ fn' = "none"
    /\ threshold' = 0
    /\ min_duration_sec' = 0
    /\ desats' = <<>>
    /\ below_stats' = NoStats
    /\ summary' = NoSummary
    /\ UNCHANGED df
    /\ UNCHANGED <<date_vars, store_vars, peer_vars>>

\* In Spec every sample carries one and the same hr reading; HrSpec varies
\* the hr column.
Next ==
    \/ \E delta \in Deltas, spo2 \in SpO2Values \cup {NaN} :
           AppendSample(delta, spo2, 60)
    \/ \E t \in Thresholds, m \in MinDurations : ComputeDesaturations(t, m)
    \/ \E t \in Thresholds : ComputeTimeBelowThreshold(t)
    \/ \E t \in Thresholds, m \in MinDurations : SummarizeSession(t, m)
    \/ Return

\* No call of compute_sleep_date yet.
NoDatetime == [wall |-> 0, tzinfo |-> <<>>]
NoDate == -1

DateInit ==
    /\ dt = NoDatetime
    /\ sleep_date = NoDate

ComputeSleepDate(d) ==
    /\ dt' = d
    /\ sleep_date' = compute_sleep_date(d)
    /\ UNCHANGED <<vars, store_vars, peer_vars>>

DateNext == \E d \in Datetimes : ComputeSleepDate(d)

\* ---------------------------------------------------------------- store

(* The SQLite file shared by the live logger, the CSV migration and the    *)
(* dashboard, each a process with its own connections.  A table is the     *)
(* sequence of its rows in rowid order (id = position).  Every statement   *)
(* followed by its commit is one step; a process may be preempted between  *)
(* two statements.  Timestamps are UTC instants in seconds, as in the      *)
(* sleep-date section; None is 0 for a session id.                         *)

DEFAULT_USER_ID == 1

\* Lines the logger handles, and CSV files in the migrated directory.
MaxLines == 1
MaxFiles == 2

\* 2024-03-09T18:01:00Z is 12:01:00 in America/Chicago: the two instants
\* before it belong to one sleep date and the instant itself to the next.
CutoffInstant == Day + 18 * Hour + 60
StoreInstants == {CutoffInstant - 2, CutoffInstant - 1, CutoffInstant}

SleepDateOf(ts) == compute_sleep_date([wall |-> ts, tzinfo |-> <<0>>])

\* The readings of a sample: what the logger parses from a line, and what
\* a CSV row holds (a CSV cell may be empty).
LoggerReading ==
    [spo2 |-> 95, hr |-> 60, pi |-> 5, movement |-> 0, battery |-> 80]
CsvReading ==
    [spo2 |-> 88, hr |-> NaN, pi |-> 4, movement |-> 1, battery |-> NaN]

\* The CSV files a directory may hold: complete files with their rows'
\* timestamps in file order (one file not in time order, one spanning two
\* sleep dates), and a file that lacks a required column.
EXPECTED_COLUMNS == {"timestamp", "spo2", "hr", "pi", "movement", "battery"}
FileRows ==
    {<<CutoffInstant - 1, CutoffInstant - 2>>,
     <<CutoffInstant, CutoffInstant - 1>>}
CsvFiles ==
    {[columns |-> EXPECTED_COLUMNS, rows |-> r] : r \in FileRows}
    \cup {[columns |-> EXPECTED_COLUMNS \ {"spo2"},
           rows |-> <<CutoffInstant - 2>>]}
CsvDirs ==
    UNION {[1..n -> CsvFiles] : n \in 1..MaxFiles}

\* SELECT id FROM sessions WHERE user_id = ? AND sleep_date = ? followed by
\* fetchone(): the matching row of lowest rowid, 0 when there is none.
fetchone_session(table, user_id, date) ==
    LET ids == {i \in 1..Len(table) :
                   /\ table[i].user_id = user_id
                   /\ table[i].sleep_date = date}
    IN  IF ids = {} THEN 0 ELSE CHOOSE i \in ids : \A j \in ids : i <= j

\* INSERT INTO sessions: start and end both take start_time_utc.
insert_session(table, user_id, date, start_time_utc) ==
    Append(table, [user_id |-> user_id,
                      sleep_date |-> date,
                      start_time_utc |-> start_time_utc,
                      end_time_utc |-> start_time_utc])

\* UPDATE sessions SET end_time_utc = ? WHERE id = ?
update_session_end_time(table, session_id, end_time_utc) ==
    [table EXCEPT ![session_id].end_time_utc = end_time_utc]

\* INSERT INTO samples.  src is bookkeeping, not a column: 0 for the
\* logger, the position of the CSV file in the directory for the migration.
insert_row(table, session_id, timestamp_utc, reading, src) ==
    Append(table, [session_id |-> session_id,
                     timestamp_utc |-> timestamp_utc,
                     spo2 |-> reading.spo2,
                     hr |-> reading.hr,
                     pi |-> reading.pi,
                     movement |-> reading.movement,
                     battery |-> reading.battery,
                     src |-> src])

\* ORDER BY timestamp_utc over rows in rowid order; rows with one
\* timestamp stay in rowid order.
RECURSIVE InsertByTimestamp(_, _)
InsertByTimestamp(sorted, r) ==
    IF sorted = <<>> THEN <<r>>
    ELSE IF sorted[Len(sorted)].timestamp_utc <= r.timestamp_utc
         THEN Append(sorted, r)
         ELSE Append(InsertByTimestamp(SubSeq(sorted, 1, Len(sorted) - 1), r),
                     sorted[Len(sorted)])

RECURSIVE OrderByTimestamp(_)
OrderByTimestamp(rows) ==
    IF rows = <<>> THEN <<>>
    ELSE InsertByTimestamp(OrderByTimestamp(SubSeq(rows, 1, Len(rows) - 1)),
                           rows[Len(rows)])

\* SELECT timestamp_utc, spo2, hr, pi, movement, battery of one row.
Selected(r) ==
    [timestamp_utc |-> r.timestamp_utc,
     spo2 |-> r.spo2,
     hr |-> r.hr,
     pi |-> r.pi,
     movement |-> r.movement,
     battery |-> r.battery]

\* Variant of the SELECT without its ORDER BY: rows in rowid order.
select_samples_unordered(table, session_id) ==
    LET rows == SelectSeq(table, LAMBDA r : r.session_id = session_id)
    IN  [i \in 1..Len(rows) |-> Selected(rows[i])]

\* SELECT ... FROM samples WHERE session_id = ? ORDER BY timestamp_utc
select_samples(table, session_id) ==
    LET rows == OrderByTimestamp(
                    SelectSeq(table, LAMBDA r : r.session_id = session_id))
    IN  [i \in 1..Len(rows) |-> Selected(rows[i])]

\* The DataFrame load_session_samples builds from the fetched rows; the
\* empty frame names its columns and holds no row.
Columns ==
    {"timestamp_utc", "timestamp_local", "spo2", "hr", "pi", "movement",
     "battery"}
EmptyFrame == [columns |-> Columns, rows |-> <<>>]
DataFrame(rows) ==
    IF rows = <<>> THEN EmptyFrame
    ELSE [columns |-> DOMAIN rows[1] \cup {"timestamp_local"},
          rows |-> [i \in 1..Len(rows) |->
                       [timestamp_utc |-> rows[i].timestamp_utc,
                        timestamp_local |->
                            rows[i].timestamp_utc
                                + UtcOffset(rows[i].timestamp_utc),
                        spo2 |-> rows[i].spo2,
                        hr |-> rows[i].hr,
                        pi |-> rows[i].pi,
                        movement |-> rows[i].movement,
                        battery |-> rows[i].battery]]]

\* The lines the logger reads from the BLE process: a reading, and two
\* lines that are not readings.
ReadingLine == "SpO2: 95%\tHR: 60 bpm\tPI: 5\tMovement: 0\tBattery: 80%"
BleLines ==
    {ReadingLine,
     "Device is not being worn!\tBattery: 80%",
     "BLE: Connected to device"}

\* VERBOSE_LINE.search(line) and the int() of its groups; NoMatch is None.
NoMatch == <<>>
VERBOSE_LINE(line) == IF line = ReadingLine THEN LoggerReading ELSE NoMatch

\* CSV_DIR / f"sleepu_{sleep_date.replace('-', '')}.csv"
NoFile == <<>>
csv_filename(date) == <<"sleepu", date>>

\* The rows of a CSV file: the header row and the data rows.
CsvHeader ==
    [header |-> TRUE,
     cells |-> <<"timestamp_utc", "spo2", "hr", "pi", "movement", "battery">>]
CsvRow(timestamp, values) ==
    [header |-> FALSE,
     cells |-> <<timestamp, values.spo2, values.hr, values.pi,
                 values.movement, values.battery>>]

\* Variant of _open_csv that goes on with the file already open.
_open_csv_keeps_file(c, date) ==
    LET filename == IF c.csv_file # NoFile THEN c.csv_file
                    ELSE csv_filename(date)
        header_needed == filename \notin DOMAIN c.files
    IN  [current_sleep_date |-> date,
         csv_file |-> filename,
         files |-> [f \in DOMAIN c.files \cup {filename} |->
                       IF f = filename /\ header_needed
                       THEN <<CsvHeader>> ELSE c.files[f]]]

\* SleepLogger._open_csv: the file of the sleep date opened for append,
\* with a header row when the file did not exist.
_open_csv(c, date) ==
    LET filename == csv_filename(date)
        header_needed == filename \notin DOMAIN c.files
    IN  [current_sleep_date |-> date,
         csv_file |-> filename,
         files |-> [f \in DOMAIN c.files \cup {filename} |->
                       IF f = filename /\ header_needed
                       THEN <<CsvHeader>> ELSE c.files[f]]]

\* SleepLogger._write_csv_row: one row appended to the open file.
_write_csv_row(c, timestamp, values) ==
    IF c.csv_file = NoFile THEN c
    ELSE [c EXCEPT !.files[c.csv_file] = Append(@, CsvRow(timestamp, values))]

StoreInit ==
    /\ csv = [current_sleep_date |-> NoDate, csv_file |-> NoFile,
              files |-> [f \in {} |-> <<>>]]
    /\ sessions = <<>>
    /\ samples = <<>>
    /\ touched = {}
    /\ logger = [pc |-> "idle", ts |-> 0, sleep_date |-> NoDate,
                 session_id |-> 0, lines |-> 0]
    /\ migration = [pc |-> "idle", ts |-> 0, sleep_date |-> NoDate,
                    session_id |-> 0, dir |-> <<>>, file |-> 0, row |-> 0,
                    cache |-> [d \in {} |-> {}]]
    /\ reader = [pc |-> "idle", sleep_date |-> NoDate, session_id |-> 0,
                 seen |-> 0, result |-> EmptyFrame]

StoreDates == {SleepDateOf(ts) : ts \in StoreInstants}

Writers == {"logger", "migrate"}
Writer(p) == IF p = "logger" THEN logger ELSE migration
Becomes(p, w) ==
    IF p = "logger" THEN logger' = w /\ UNCHANGED migration
    ELSE migration' = w /\ UNCHANGED logger

\* Variant in which main logs a file lacking a column and goes on to the
\* next file.
RECURSIVE Advance_skips_file(_)
Advance_skips_file(m) ==
    IF m.file > Len(m.dir) THEN [m EXCEPT !.pc = "done"]
    ELSE LET f == m.dir[m.file]
         IN  IF m.row = 0
             THEN IF EXPECTED_COLUMNS \ f.columns # {}
                  THEN Advance_skips_file([m EXCEPT !.file = @ + 1])
                  ELSE Advance_skips_file([m EXCEPT !.row = 1,
                                           !.cache = [d \in {} |-> {}]])
             ELSE IF m.row > Len(f.rows)
             THEN Advance_skips_file([m EXCEPT !.file = @ + 1, !.row = 0])
             ELSE LET ts == f.rows[m.row]
                      date == SleepDateOf(ts)
                      at == [m EXCEPT !.ts = ts, !.sleep_date = date,
                                      !.session_id = 0]
                  IN  IF date \notin DOMAIN m.cache
                      THEN [at EXCEPT !.pc = "load_session"]
                      ELSE IF ts \in m.cache[date]
                      THEN Advance_skips_file([m EXCEPT !.row = @ + 1])
                      ELSE [at EXCEPT !.pc = "touch_session"]

\* migrate_file between two statements on the database: read_csv and the
\* column check on entering a file (row 0), then for each row the sleep
\* date and the cache test, up to the next statement the row needs, a
\* file lacking a column (ValueError, not caught by main) or the end of
\* the directory.
RECURSIVE Advance(_)
Advance(m) ==
    IF m.file > Len(m.dir) THEN [m EXCEPT !.pc = "done"]
    ELSE LET f == m.dir[m.file]
         IN  IF m.row = 0
             THEN IF EXPECTED_COLUMNS \ f.columns # {}
                  THEN [m EXCEPT !.pc = "failed"]
                  ELSE Advance([m EXCEPT !.row = 1,
                                         !.cache = [d \in {} |-> {}]])
             ELSE IF m.row > Len(f.rows)
             THEN Advance([m EXCEPT !.file = @ + 1, !.row = 0])
             ELSE LET ts == f.rows[m.row]
                      date == SleepDateOf(ts)
                      at == [m EXCEPT !.ts = ts, !.sleep_date = date,
                                      !.session_id = 0]
                  IN  IF date \notin DOMAIN m.cache
                      THEN [at EXCEPT !.pc = "load_session"]
                      ELSE IF ts \in m.cache[date]
                      THEN Advance([m EXCEPT !.row = @ + 1])
                      ELSE [at EXCEPT !.pc = "touch_session"]

\* cache[date_key] = timestamps
Cached(cache, date, timestamps) ==
    [d \in DOMAIN cache \cup {date} |->
        IF d = date THEN timestamps ELSE cache[d]]

\* SleepLogger._process_line up to its first statement on the database,
\* for one of at most limit lines: a line that does not match is ignored;
\* for a line that matches the clock is read (later than at the line
\* before), the sleep date computed and the CSV file of that sleep date
\* opened unless it is the open one.
ProcessLineWithin(line, now_utc, limit) ==
    /\ logger.pc = "idle"
    /\ logger.lines < limit
    /\ now_utc > logger.ts
    /\ IF VERBOSE_LINE(line) = NoMatch
       THEN /\ logger' = [logger EXCEPT !.lines = @ + 1]
            /\ UNCHANGED csv
       ELSE /\ logger' = [logger EXCEPT !.pc = "touch_session",
                                       !.ts = now_utc,
                                       !.sleep_date = SleepDateOf(now_utc),
                                       !.session_id = 0,
                                       !.lines = @ + 1]
            /\ csv' = IF csv.current_sleep_date # SleepDateOf(now_utc)
                      THEN _open_csv(csv, SleepDateOf(now_utc))
                      ELSE csv
    /\ UNCHANGED <<sessions, samples, touched, migration, reader>>
    /\ UNCHANGED <<vars, date_vars, peer_vars>>

\* _process_line for a reading, with the logger concurrent to the
\* migration and the dashboard.
ProcessLine(now_utc) == ProcessLineWithin(ReadingLine, now_utc, MaxLines)

\* The logger process is started anew between two lines: a new
\* SleepLogger has no CSV file open; the files on disk stay.
LoggerRestart ==
    /\ logger.pc = "idle"
    /\ csv.csv_file # NoFile
    /\ csv' = [csv EXCEPT !.current_sleep_date = NoDate,
                          !.csv_file = NoFile]
    /\ UNCHANGED <<sessions, samples, touched, logger, migration, reader>>
    /\ UNCHANGED <<vars, date_vars, peer_vars>>

\* main of migrate_csv_to_db: the directory is listed in sorted order and
\* the first file entered.
MigrateMain(dir) ==
    /\ migration.pc = "idle"
    /\ migration' = Advance([migration EXCEPT !.dir = dir, !.file = 1,
                                              !.row = 0])
    /\ UNCHANGED <<sessions, samples, touched, logger, reader, csv>>
    /\ UNCHANGED <<vars, date_vars, peer_vars>>

\* load_session_samples called by migrate_file: _get_session_id.
MigrateLoadSession ==
    /\ migration.pc = "load_session"
    /\ LET id == fetchone_session(sessions, DEFAULT_USER_ID,
                                  migration.sleep_date)
       IN  migration' =
               IF id = 0
               THEN Advance([migration EXCEPT !.cache =
                        Cached(@, migration.sleep_date, {})])
               ELSE [migration EXCEPT !.pc = "load_samples",
                                      !.session_id = id]
    /\ UNCHANGED <<sessions, samples, touched, logger, reader, csv>>
    /\ UNCHANGED <<vars, date_vars, peer_vars>>

\* load_session_samples called by migrate_file: the samples of the session.
MigrateLoadSamples ==
    /\ migration.pc = "load_samples"
    /\ LET existing == DataFrame(select_samples(samples, migration.session_id))
           timestamps == {existing.rows[i].timestamp_utc :
                             i \in 1..Len(existing.rows)}
       IN  migration' = Advance([migration EXCEPT !.cache =
                            Cached(@, migration.sleep_date, timestamps)])
    /\ UNCHANGED <<sessions, samples, touched, logger, reader, csv>>
    /\ UNCHANGED <<vars, date_vars, peer_vars>>

\* db.touch_session: the SELECT, and the return of the id found.
TouchSelect(p) ==
    LET w == Writer(p)
        id == fetchone_session(sessions, DEFAULT_USER_ID, w.sleep_date)
    IN  /\ w.pc = "touch_session"
        /\ IF id # 0
           THEN /\ Becomes(p, [w EXCEPT !.pc = "insert_sample",
                                        !.session_id = id])
                /\ touched' = touched \cup {<<w.sleep_date, id>>}
           ELSE /\ Becomes(p, [w EXCEPT !.pc = "insert_session"])
                /\ UNCHANGED touched
        /\ UNCHANGED <<sessions, samples, reader, csv>>
        /\ UNCHANGED <<vars, date_vars, peer_vars>>

\* db.touch_session: the INSERT after a SELECT that found no row.
TouchInsert(p) ==
    LET w == Writer(p)
    IN  /\ w.pc = "insert_session"
        /\ sessions' = insert_session(sessions, DEFAULT_USER_ID,
                                      w.sleep_date, w.ts)
        /\ Becomes(p, [w EXCEPT !.pc = "insert_sample",
                                !.session_id = Len(sessions) + 1])
        /\ touched' = touched \cup {<<w.sleep_date, Len(sessions) + 1>>}
        /\ UNCHANGED <<samples, reader, csv>>
        /\ UNCHANGED <<vars, date_vars, peer_vars>>

\* data_io.insert_sample: the INSERT and its commit.
InsertSample(p) ==
    LET w == Writer(p)
    IN  /\ w.pc = "insert_sample"
        /\ samples' = insert_row(samples, w.session_id, w.ts,
                                 IF p = "logger" THEN LoggerReading
                                 ELSE CsvReading,
                                 IF p = "logger" THEN 0 ELSE w.file)
        /\ Becomes(p, [w EXCEPT !.pc = "update_end"])
        /\ UNCHANGED <<sessions, touched, reader, csv>>
        /\ UNCHANGED <<vars, date_vars, peer_vars>>

\* data_io.insert_sample: db.update_session_end_time, then the return to
\* the caller (the logger writes the CSV row and waits for its next line;
\* migrate_file records the timestamp and goes to its next row).
UpdateEnd(p) ==
    LET w == Writer(p)
    IN  /\ w.pc = "update_end"
        /\ sessions' = update_session_end_time(sessions, w.session_id, w.ts)
        /\ Becomes(p, IF p = "logger"
                      THEN [w EXCEPT !.pc = "idle"]
                      ELSE Advance([w EXCEPT
                               !.cache = Cached(@, w.sleep_date,
                                                @[w.sleep_date] \cup {w.ts}),
                               !.row = @ + 1]))
        /\ csv' = IF p = "logger"
                  THEN _write_csv_row(csv, w.ts, LoggerReading)
                  ELSE csv
        /\ UNCHANGED <<samples, touched, reader>>
        /\ UNCHANGED <<vars, date_vars, peer_vars>>

\* load_session_samples called by the dashboard: _get_session_id, and the
\* empty frame when there is no session.  seen is bookkeeping: the number
\* of committed samples at the last statement of the call.
ReaderSelectSession(date) ==
    /\ reader.pc = "idle"
    /\ LET id == fetchone_session(sessions, DEFAULT_USER_ID, date)
       IN  reader' =
               IF id = 0
               THEN [pc |-> "done", sleep_date |-> date, session_id |-> 0,
                     seen |-> Len(samples), result |-> EmptyFrame]
               ELSE [reader EXCEPT !.pc = "load_samples",
                                   !.sleep_date = date,
                                   !.session_id = id]
    /\ UNCHANGED <<sessions, samples, touched, logger, migration, csv>>
    /\ UNCHANGED <<vars, date_vars, peer_vars>>

\* load_session_samples: the SELECT of the samples and the frame returned.
ReaderSelectSamples ==
    /\ reader.pc = "load_samples"
    /\ reader' = [reader EXCEPT
                     !.pc = "done",
                     !.seen = Len(samples),
                     !.result = DataFrame(select_samples(samples,
                                                         reader.session_id))]
    /\ UNCHANGED <<sessions, samples, touched, logger, migration, csv>>
    /\ UNCHANGED <<vars, date_vars, peer_vars>>

\* The callback is over; the frame it held is dropped.
ReaderReturn ==
    /\ reader.pc = "done"
    /\ reader' = [pc |-> "idle", sleep_date |-> NoDate, session_id |-> 0,
                  seen |-> 0, result |-> EmptyFrame]
    /\ UNCHANGED <<sessions, samples, touched, logger, migration, csv>>
    /\ UNCHANGED <<vars, date_vars, peer_vars>>

StoreNext ==
    \/ \E now_utc \in StoreInstants : ProcessLine(now_utc)
    \/ \E dir \in CsvDirs : MigrateMain(dir)
    \/ MigrateLoadSession
    \/ MigrateLoadSamples
    \/ \E p \in Writers : TouchSelect(p)
    \/ \E p \in Writers : TouchInsert(p)
    \/ \E p \in Writers : InsertSample(p)
    \/ \E p \in Writers : UpdateEnd(p)
    \/ \E date \in StoreDates : ReaderSelectSession(date)
    \/ ReaderSelectSamples
    \/ ReaderReturn

\* ------------------------------------------------------------------
\* viatom-ble.py: the main loop and the notification handler.

\* seconds to wait between reads, between reconnection attempts, of
\* inactivity before the forced disconnect, and after that disconnect
ble_read_period == 2
ble_reconnect_delay == 1
ble_inactivity_timeout == 300
ble_inactivity_delay == 130

\* The notifications the handler may be given: data of at most one byte,
\* data too short to hold the worn flag (IndexError, caught and logged),
\* a not-worn packet, a calibrating packet, and a valid reading.
Notifications == {"empty", "truncated", "not_worn", "calibrating", "valid"}

\* ble_fail_count >= (ble_inactivity_timeout / ble_read_period), the
\* quotient being a float.
InactivityLimitReached(count) ==
    count * ble_read_period >= ble_inactivity_timeout

\* Before the main loop: no wait has been made, no notification handled.
\* streak counts the not-worn and calibrating notifications since the
\* last valid reading or connect; timed_out tells that the handler has
\* disconnected for inactivity and the wait after it is still to come;
\* waited is the delay of the last wait made (0 when none).
BleInit ==
    /\ ble_pc = "connect"
    /\ ble_fail_count = 0
    /\ ble_next_reconnect_delay = ble_reconnect_delay
    /\ peripheral = "disconnected"
    /\ ble_seen = [streak |-> 0, timed_out |-> FALSE, waited |-> 0]

\* Top of the main loop: ble_fail_count = 0, then peripheral.connect and
\* the discovery of the handles succeed, or raise.
Connect(ok) ==
    /\ ble_pc = "connect"
    /\ ble_fail_count' = 0
    /\ ble_seen' = [ble_seen EXCEPT !.streak = 0]
    /\ IF ok
       THEN peripheral' = "connected" /\ ble_pc' = "reading"
       ELSE peripheral' = "disconnected" /\ ble_pc' = "wait"
    /\ UNCHANGED ble_next_reconnect_delay
    /\ UNCHANGED <<vars, date_vars, store_vars, nav_vars>>

\* ReadDelegate.handleNotification, called while the loop waits on the
\* connected peripheral.
HandleNotification(data) ==
    /\ ble_pc = "reading"
    /\ peripheral = "connected"
    /\ LET failed == data \in {"not_worn", "calibrating"}
           count == IF data = "valid" THEN 0
                    ELSE IF failed THEN ble_fail_count + 1
                    ELSE ble_fail_count
           streak == IF data = "valid" THEN 0
                     ELSE IF failed THEN ble_seen.streak + 1
                     ELSE ble_seen.streak
       IN  IF data \in {"empty", "truncated"}
           THEN UNCHANGED <<ble_fail_count, ble_next_reconnect_delay,
                            peripheral, ble_seen>>
           ELSE IF InactivityLimitReached(count)
           THEN /\ ble_fail_count' = 0
                /\ ble_next_reconnect_delay' = ble_inactivity_delay
                /\ peripheral' = "disconnected"
                /\ ble_seen' = [ble_seen EXCEPT !.streak = streak,
                                                !.timed_out = TRUE]
           ELSE /\ ble_fail_count' = count
                /\ ble_seen' = [ble_seen EXCEPT !.streak = streak]
                /\ UNCHANGED <<ble_next_reconnect_delay, peripheral>>
    /\ UNCHANGED ble_pc
    /\ UNCHANGED <<vars, date_vars, store_vars, nav_vars>>

\* The link to the device is lost while reading: the BLE call in progress
\* raises BTLEException, which the loop logs.
LinkLost ==
    /\ ble_pc = "reading"
    /\ peripheral = "connected"
    /\ peripheral' = "disconnected"
    /\ ble_pc' = "wait"
    /\ UNCHANGED <<ble_fail_count, ble_next_reconnect_delay, ble_seen>>
    /\ UNCHANGED <<vars, date_vars, store_vars, nav_vars>>

\* The next BLE call of the loop after the handler has disconnected
\* raises, and the loop logs it.
CallAfterDisconnect ==
    /\ ble_pc = "reading"
    /\ peripheral = "disconnected"
    /\ ble_pc' = "wait"
    /\ UNCHANGED <<ble_fail_count, ble_next_reconnect_delay, peripheral,
                   ble_seen>>
    /\ UNCHANGED <<vars, date_vars, store_vars, nav_vars>>

\* Variant of the wait that leaves ble_next_reconnect_delay as it is.
WaitToReconnect_keeps_delay ==
    /\ ble_pc = "wait"
    /\ ble_seen' = [ble_seen EXCEPT !.waited = ble_next_reconnect_delay,
                                    !.timed_out = FALSE]
    /\ ble_pc' = "connect"
    /\ UNCHANGED <<ble_fail_count, ble_next_reconnect_delay, peripheral>>
    /\ UNCHANGED <<vars, date_vars, store_vars, nav_vars>>

\* time.sleep(ble_next_reconnect_delay), then the delay is set back to
\* ble_reconnect_delay and the loop starts over.
WaitToReconnect ==
    /\ ble_pc = "wait"
    /\ ble_seen' = [ble_seen EXCEPT !.waited = ble_next_reconnect_delay,
                                    !.timed_out = FALSE]
    /\ ble_next_reconnect_delay' = ble_reconnect_delay
    /\ ble_pc' = "connect"
    /\ UNCHANGED <<ble_fail_count, peripheral>>
    /\ UNCHANGED <<vars, date_vars, store_vars, nav_vars>>

\* KeyboardInterrupt: the loop is left.
KeyboardInterrupt ==
    /\ ble_pc # "exited"
    /\ ble_pc' = "exited"
    /\ UNCHANGED <<ble_fail_count, ble_next_reconnect_delay, peripheral,
                   ble_seen>>
    /\ UNCHANGED <<vars, date_vars, store_vars, nav_vars>>

BleNext ==
    \/ \E ok \in BOOLEAN : Connect(ok)
    \/ \E data \in Notifications : HandleNotification(data)
    \/ LinkLost
    \/ CallAfterDisconnect
    \/ WaitToReconnect
    \/ KeyboardInterrupt

\* ------------------------------------------------------------------
\* The events tab of the dashboard: update_events_tab and step_events.

\* The nights the dropdown offers: two recorded at a cadence of one
\* second, whose dips are apart at threshold 90 and joined at 91, and one
\* with no sample.
NightReadings(date) ==
    IF date = 0 THEN <<88, 90, 88, 90, 88>>
    ELSE IF date = 1 THEN <<88, 90, 88, 90, 88, 90, 88>>
    ELSE <<>>
RecordedNight(date) ==
    [i \in 1..Len(NightReadings(date)) |->
        [timestamp_local |-> Sec(i), spo2 |-> NightReadings(date)[i],
         hr |-> 60]]
NavDates == {0, 1, 2}

\* The minimum durations the input is set to, in ticks; 10 s at start.
NavDurations == {Sec(1), Sec(5), Sec(10)}

\* update_events_tab: max of the slider, and the number of events and the
\* index of the event displayed (NoEvent when none is).
NoEvent == [count |-> 0, index |-> -1]
update_events_tab(sleep_date_value, threshold_value, duration, value) ==
    IF sleep_date_value = NoDate
    THEN [max |-> 0, shown |-> NoEvent]
    ELSE LET frame == RecordedNight(sleep_date_value)
         IN  IF frame = <<>>
             THEN [max |-> 0, shown |-> NoEvent]
             ELSE LET events == compute_desaturations(frame, threshold_value,
                                                      duration)
                      max_idx == Len(events) - 1
                      event_index ==
                          IF value < 0 THEN 0
                          ELSE IF value > max_idx THEN max_idx
                          ELSE value
                  IN  IF events = <<>>
                      THEN [max |-> 0, shown |-> NoEvent]
                      ELSE [max |-> max_idx,
                            shown |-> [count |-> Len(events),
                                       index |-> event_index]]

\* step_events: max(current_index - 1, 0) or min(current_index + 1,
\* max_index).
new_index(trigger, current_index, max_index) ==
    IF trigger = "events-prev"
    THEN IF current_index - 1 > 0 THEN current_index - 1 ELSE 0
    ELSE IF current_index + 1 < max_index THEN current_index + 1
         ELSE max_index

\* The page as laid out: no click yet, the slider at 0 of 0, threshold 90
\* and 10 s, no night selected.
NoStep == [trigger |-> "none", current_index |-> 0, max_index |-> 0,
           new_index |-> 0]
NavInit ==
    /\ events_sleep_date = NoDate
    /\ events_threshold = 90
    /\ events_duration = Sec(10)
    /\ events_index = [value |-> 0, max |-> 0]
    /\ events_shown = NoEvent
    /\ stepped = NoStep

\* Dash calls update_events_tab whenever one of its four inputs changes;
\* the callback sets the max of the slider and leaves its value.
Refreshed(date, threshold_value, min_duration, slider_value) ==
    LET out == update_events_tab(date, threshold_value, min_duration,
                                 slider_value)
    IN  /\ events_sleep_date' = date
        /\ events_threshold' = threshold_value
        /\ events_duration' = min_duration
        /\ events_index' = [value |-> slider_value, max |-> out.max]
        /\ events_shown' = out.shown

\* The user picks a night, a threshold or a minimum duration.
ChangeSettings(date, threshold_value, min_duration) ==
    /\ <<date, threshold_value, min_duration>>
           # <<events_sleep_date, events_threshold, events_duration>>
    /\ Refreshed(date, threshold_value, min_duration, events_index.value)
    /\ UNCHANGED stepped
    /\ UNCHANGED <<vars, date_vars, store_vars, ble_vars>>

\* The user drags the slider within its range.
DragSlider(slider_value) ==
    /\ slider_value \in 0..events_index.max
    /\ slider_value # events_index.value
    /\ Refreshed(events_sleep_date, events_threshold, events_duration,
                 slider_value)
    /\ UNCHANGED stepped
    /\ UNCHANGED <<vars, date_vars, store_vars, ble_vars>>

\* A click on Prev or Next: step_events reads value and max of the slider
\* and returns the new value, on which update_events_tab runs.
StepEvents(trigger) ==
    LET returned == new_index(trigger, events_index.value, events_index.max)
    IN  /\ stepped' = [trigger |-> trigger,
                       current_index |-> events_index.value,
                       max_index |-> events_index.max,
                       new_index |-> returned]
        /\ Refreshed(events_sleep_date, events_threshold, events_duration,
                     returned)
        /\ UNCHANGED <<vars, date_vars, store_vars, ble_vars>>

NavNext ==
    \/ \E date \in NavDates \cup {NoDate}, threshold_value \in Thresholds,
          min_duration \in NavDurations :
           ChangeSettings(date, threshold_value, min_duration)
    \/ \E slider_value \in 0..3 : DragSlider(slider_value)
    \/ \E trigger \in {"events-prev", "events-next"} : StepEvents(trigger)

\* Every specification starts from InitAll and moves one part of the
\* program, the other parts staying as they are.
InitAll == Init /\ DateInit /\ StoreInit /\ BleInit /\ NavInit

Spec == InitAll /\ [][Next]_all_vars

SleepDateSpec ==
    InitAll /\ [][DateNext]_all_vars

StoreSpec ==
    InitAll /\ [][StoreNext]_all_vars

\* Ingestion on its own: the logger handles up to MaxIngestLines lines of
\* any kind and may be started anew between lines, while one CSV file is
\* migrated.
MaxIngestLines == 3

IngestNext ==
    \/ \E line \in BleLines, now_utc \in StoreInstants :
           ProcessLineWithin(line, now_utc, MaxIngestLines)
    \/ LoggerRestart
    \/ \E f \in CsvFiles : MigrateMain(<<f>>)
    \/ MigrateLoadSession
    \/ MigrateLoadSamples
    \/ \E p \in Writers : TouchSelect(p)
    \/ \E p \in Writers : TouchInsert(p)
    \/ \E p \in Writers : InsertSample(p)
    \/ \E p \in Writers : UpdateEnd(p)

IngestSpec ==
    InitAll /\ [][IngestNext]_all_vars

NavSpec ==
    InitAll /\ [][NavNext]_all_vars

\* The main loop goes on by itself: the call after a disconnect raises
\* and the sleep before the reconnect returns.  Notifications, lost links
\* and interrupts come from outside and may never come.
BleSpec ==
    /\ InitAll
    /\ [][BleNext]_all_vars
    /\ WF_all_vars(CallAfterDisconnect)
    /\ WF_all_vars(WaitToReconnect)

\* Short sessions whose hr column holds readings and nulls, independently
\* of the spo2 column.
HrNext ==
    \/ \E delta \in Deltas, spo2 \in SpO2Values \cup {NaN},
          hr \in HrValues \cup {NaN} :
           Len(df) < MaxHrLen /\ AppendSample(delta, spo2, hr)
    \/ \E t \in Thresholds, m \in MinDurations : ComputeDesaturations(t, m)
    \/ \E t \in Thresholds, m \in MinDurations : SummarizeSession(t, m)
    \/ Return

HrSpec ==
    InitAll /\ [][HrNext]_all_vars

\* Short sessions in which a sample may repeat the timestamp of the one
\* before it (delta 0).
TieDeltas == Deltas \cup {0}

TiesNext ==
    \/ \E delta \in TieDeltas, spo2 \in SpO2Values \cup {NaN} :
           Len(df) < MaxTieLen /\ AppendSample(delta, spo2, 60)
    \/ \E t \in Thresholds, m \in MinDurations : ComputeDesaturations(t, m)
    \/ \E t \in Thresholds : ComputeTimeBelowThreshold(t)
    \/ \E t \in Thresholds, m \in MinDurations : SummarizeSession(t, m)
    \/ Return

TiesSpec ==
    InitAll /\ [][TiesNext]_all_vars

\* --------------------------------------------------------- claim helpers

Range(s) == {s[i] : i \in 1..Len(s)}

Timestamps(frame) == {frame[i].timestamp_local : i \in 1..Len(frame)}

SetMax(S) == CHOOSE x \in S : \A y \in S : y <= x
SetMin(S) == CHOOSE x \in S : \A y \in S : x <= y

\* The frame is not in time order as the caller holds it.
Unsorted(frame) ==
    \E i \in 1..(Len(frame) - 1) :
        frame[i + 1].timestamp_local < frame[i].timestamp_local

HasNull(frame) == \E i \in 1..Len(frame) : frame[i].spo2 = NaN

Durations(events) == [k \in 1..Len(events) |-> events[k].duration_sec]

\* -------------------------------------------------------------------- C1

\* C1: for every frame (null SpO2 rows and irregular timestamps included)
\* and every threshold, the durations of compute_desaturations(df,
\* threshold, 0) sum to total_seconds_below of
\* compute_time_below_threshold(df, threshold).
C1_DurationsSumToTimeBelow ==
    fn = "compute_time_below_threshold" =>
        below_stats.total_seconds_below
            = SumSeq(Durations(compute_desaturations(df, threshold, 0)))

\* The same statement on frames without a null SpO2 (not C1: a sanity
\* check that the two functions differ only in their handling of nulls).
C1_HoldsWithoutNulls ==
    (fn = "compute_time_below_threshold" /\ ~HasNull(df)) =>
        below_stats.total_seconds_below
            = SumSeq(Durations(compute_desaturations(df, threshold, 0)))

\* -------------------------------------------------------------------- C2

\* C2: the events compute_desaturations returns are in chronological order
\* and do not overlap: each event ends no later than the next one starts.
C2_EventsDoNotOverlap ==
    fn = "compute_desaturations" =>
        \A k \in 1..(Len(desats) - 1) :
            desats[k].end_time_local <= desats[k + 1].start_time_local

\* The order alone (not C2): start times strictly increase.
C2_EventsInOrder ==
    fn = "compute_desaturations" =>
        \A k \in 1..(Len(desats) - 1) :
            desats[k].start_time_local < desats[k + 1].start_time_local

\* -------------------------------------------------------------------- C3

\* Every group of gs lies inside one group of hs (index ranges over the
\* same sorted frame), so its raw span, and with one shared interval its
\* duration, is no longer than that group's.
GroupsContained(frame, gs, hs) ==
    \A k \in 1..Len(gs) :
        \E j \in 1..Len(hs) :
            /\ hs[j].first <= gs[k].first
            /\ gs[k].last <= hs[j].last
            /\ frame[gs[k].last].timestamp_local
                   - frame[gs[k].first].timestamp_local
               <= frame[hs[j].last].timestamp_local
                   - frame[hs[j].first].timestamp_local

\* Every event of es lies inside an event of fs that lasts at least as long.
EventsContained(es, fs) ==
    \A k \in 1..Len(es) :
        \E j \in 1..Len(fs) :
            /\ fs[j].start_time_local <= es[k].start_time_local
            /\ es[k].end_time_local <= fs[j].end_time_local
            /\ es[k].duration_sec <= fs[j].duration_sec

\* C3: with the samples fixed, raising the threshold from t to t2 >= t
\* only adds or lengthens below-threshold runs: every sample below at t is
\* below at t2, and every below-threshold run at t (of the segmentation and
\* of the time-below aggregator) lies inside a run at t2 that lasts at
\* least as long; the events returned for t lie inside events returned
\* for t2.
C3_ThresholdMonotone ==
    fn = "compute_desaturations" =>
        \A t2 \in Thresholds :
            threshold <= t2 =>
                LET all == sort_values(df)
                    kept == dropna(all)
                IN  /\ \A i \in 1..Len(df) :
                           below(df[i], threshold) => below(df[i], t2)
                    /\ GroupsContained(kept, BelowGroups(kept, threshold),
                                       BelowGroups(kept, t2))
                    /\ GroupsContained(all, BelowGroups(all, threshold),
                                       BelowGroups(all, t2))
                    /\ EventsContained(desats,
                           compute_desaturations(df, t2, min_duration_sec))
                    /\ EventsContained(compute_desaturations(df, threshold, 0),
                                       compute_desaturations(df, t2, 0))

\* Raising the threshold merged two runs into one longer run.
C3_Witness ==
    /\ fn = "compute_desaturations"
    /\ min_duration_sec = 0
    /\ Len(desats) = 2
    /\ \E t2 \in Thresholds :
           /\ threshold < t2
           /\ Len(compute_desaturations(df, t2, 0)) = 1
           /\ compute_desaturations(df, t2, 0)[1].duration_sec
                  > desats[1].duration_sec + desats[2].duration_sec

\* -------------------------------------------------------------------- C4

RECURSIVE IsSubSeq(_, _)
\* s is t with some elements removed (order kept).
IsSubSeq(s, t) ==
    IF s = <<>> THEN TRUE
    ELSE IF t = <<>> THEN FALSE
    ELSE IF Head(s) = Head(t) THEN IsSubSeq(Tail(s), Tail(t))
    ELSE IsSubSeq(s, Tail(t))

\* C4: with samples and threshold fixed, raising min_duration_sec from m
\* to m2 >= m only removes events: the events for m2 are a sub-list of the
\* events for m, every surviving event unchanged in all its fields.
C4_MinDurationMonotone ==
    fn = "compute_desaturations" =>
        \A m2 \in MinDurations :
            /\ min_duration_sec <= m2 =>
                   IsSubSeq(compute_desaturations(df, threshold, m2), desats)
            /\ m2 <= min_duration_sec =>
                   IsSubSeq(desats, compute_desaturations(df, threshold, m2))

\* Raising the minimum duration removed one event and kept another.
C4_Witness ==
    /\ fn = "compute_desaturations"
    /\ Len(desats) = 2
    /\ \E m2 \in MinDurations :
           /\ min_duration_sec < m2
           /\ Len(compute_desaturations(df, threshold, m2)) = 1

\* -------------------------------------------------------------------- C5

\* Row i of the frame is a null reading that lies, in time, strictly
\* between two below-threshold readings with no other reading between them.
NullInsideRun(frame, t, i) ==
    /\ frame[i].spo2 = NaN
    /\ \E a, b \in 1..Len(frame) :
           /\ below(frame[a], t) /\ below(frame[b], t)
           /\ frame[a].timestamp_local < frame[i].timestamp_local
           /\ frame[i].timestamp_local < frame[b].timestamp_local
           /\ \A c \in 1..Len(frame) :
                  (c # i /\ frame[c].spo2 # NaN) =>
                      \/ frame[c].timestamp_local <= frame[a].timestamp_local
                      \/ frame[b].timestamp_local <= frame[c].timestamp_local

\* C5: compute_desaturations treats null-SpO2 samples as absent: the
\* frame with its null rows (any number, at any timestamps) gives exactly
\* the events of the frame without them.
C5_NullsAreAbsent ==
    fn = "compute_desaturations" =>
        desats = compute_desaturations(dropna(df), threshold, min_duration_sec)

\* A null reading between two below-threshold readings, and one event
\* that spans both of them.
C5_Witness ==
    /\ fn = "compute_desaturations"
    /\ \E i \in 1..Len(df) :
           /\ NullInsideRun(df, threshold, i)
           /\ \E k \in 1..Len(desats) :
                  /\ desats[k].start_time_local < df[i].timestamp_local
                  /\ df[i].timestamp_local
                         < desats[k].end_time_local
                             - _estimate_sample_interval(dropna(sort_values(df)))

\* -------------------------------------------------------------------- C6

\* Every null row lies, in time, strictly between the first and the last
\* non-null sample.
NullsInside(frame) ==
    /\ dropna(frame) # <<>>
    /\ \A i \in 1..Len(frame) :
           frame[i].spo2 = NaN =>
               /\ SetMin(Timestamps(dropna(frame))) < frame[i].timestamp_local
               /\ frame[i].timestamp_local < SetMax(Timestamps(dropna(frame)))

\* C6: compute_time_below_threshold drops null-SpO2 samples before it
\* groups: null rows between the first and the last sample leave
\* total_seconds_below as it is without them.
C6_TimeBelowIgnoresNulls ==
    (fn = "compute_time_below_threshold" /\ NullsInside(df)) =>
        below_stats.total_seconds_below
            = compute_time_below_threshold(dropna(df), threshold)
                  .total_seconds_below

\* -------------------------------------------------------------------- C7

\* C7: events_count of summarize_session(df, threshold, min_duration_sec)
\* is the number of events of compute_desaturations called directly on the
\* caller's frame, sorted or not.
C7_EventsCountMatchesDirectCall ==
    fn = "summarize_session" =>
        summary.events_count
            = Len(compute_desaturations(df, threshold, min_duration_sec))

\* An unsorted frame with a run the minimum duration discards and one it
\* keeps.
C7_Witness ==
    /\ fn = "summarize_session"
    /\ Unsorted(df)
    /\ summary.events_count = 1
    /\ Len(compute_desaturations(df, threshold, 0)) = 2

\* -------------------------------------------------------------------- C8

\* The frame has at least two rows, no null SpO2, and one spacing d
\* (ticks) between all rows that are adjacent in time.
ConstantCadence(frame, d) ==
    /\ Len(frame) >= 2
    /\ ~HasNull(frame)
    /\ d > 0
    /\ \A x \in Timestamps(frame) :
           x = SetMin(Timestamps(frame)) \/ (x - d) \in Timestamps(frame)
    /\ Cardinality(Timestamps(frame)) = Len(frame)

\* The readings of the frame from time a to time b are a maximal run of
\* below-threshold readings.
MaximalRun(frame, t, a, b) ==
    /\ a <= b
    /\ {a, b} \subseteq Timestamps(frame)
    /\ \A i \in 1..Len(frame) :
           LET x == frame[i].timestamp_local
           IN  /\ (a <= x /\ x <= b) => below(frame[i], t)
               /\ (\A j \in 1..Len(frame) :
                      LET y == frame[j].timestamp_local
                      IN  ~(x < y /\ y < a) /\ ~(b < y /\ y < x))
                   => (x < a \/ b < x => ~below(frame[i], t))

\* Scenario A of the specification: SpO2 95, 89, 88, 87, 91 at 2 s cadence.
ScenarioA ==
    <<[timestamp_local |-> Sec(0), spo2 |-> 95, hr |-> 60],
      [timestamp_local |-> Sec(2), spo2 |-> 89, hr |-> 60],
      [timestamp_local |-> Sec(4), spo2 |-> 88, hr |-> 60],
      [timestamp_local |-> Sec(6), spo2 |-> 87, hr |-> 60],
      [timestamp_local |-> Sec(8), spo2 |-> 91, hr |-> 60]>>

\* C8: at a constant cadence d with no null SpO2, a maximal run of n
\* below-threshold samples has duration_sec = n*d and is emitted exactly
\* when n*d >= min_duration_sec (equality keeps it); Scenario A at
\* threshold 90 gives one 6 s event for min_duration 5 and none for 10.
C8_ConstantCadenceDuration ==
    /\ fn = "compute_desaturations" =>
           \A d \in {Sec(x) : x \in 1..5} :
               ConstantCadence(df, d) =>
                   \A a, b \in Timestamps(df) :
                       MaximalRun(df, threshold, a, b) =>
                           LET n == (b - a) \div d + 1
                               hits == {k \in 1..Len(desats) :
                                           desats[k].start_time_local = a}
                           IN  /\ (n * d >= min_duration_sec)
                                      <=> (hits # {})
                               /\ Cardinality(hits) <= 1
                               /\ \A k \in hits :
                                      /\ desats[k].duration_sec = n * d
                                      /\ desats[k].end_time_local = b + d
    /\ LET five == compute_desaturations(ScenarioA, 90, Sec(5))
       IN  /\ Len(five) = 1
           /\ five[1].duration_sec = Sec(6)
           /\ five[1].start_time_local = Sec(2)
    /\ compute_desaturations(ScenarioA, 90, Sec(10)) = <<>>

\* A run at constant cadence whose duration equals min_duration_sec, kept,
\* beside a shorter run that is dropped.
C8_Witness ==
    /\ fn = "compute_desaturations"
    /\ min_duration_sec > 0
    /\ \E d \in {Sec(x) : x \in 1..5} : ConstantCadence(df, d)
    /\ Len(desats) = 1
    /\ desats[1].duration_sec = min_duration_sec
    /\ Len(compute_desaturations(df, threshold, 0)) = 2

\* -------------------------------------------------------------------- C9

StrictlyIncreasing(frame) ==
    \A i \in 1..(Len(frame) - 1) :
        frame[i].timestamp_local < frame[i + 1].timestamp_local

\* C9: a single below-threshold sample between two samples at or above
\* threshold (nulls set aside, timestamps strictly increasing) is a run
\* whose duration_sec is the median of the consecutive timestamp deltas of
\* the non-null samples, and not 0; it is emitted iff that median is
\* >= min_duration_sec, and its end_time is its timestamp plus the median.
C9_SingleSampleRun ==
    fn = "compute_desaturations" =>
        LET kept == dropna(sort_values(df))
        IN  \A i \in 2..(Len(kept) - 1) :
                ( /\ StrictlyIncreasing(kept)
                  /\ below(kept[i], threshold)
                  /\ ~below(kept[i - 1], threshold)
                  /\ ~below(kept[i + 1], threshold) ) =>
                    LET interval == median(diff(kept))
                        at == kept[i].timestamp_local
                        hits == {k \in 1..Len(desats) :
                                    desats[k].start_time_local = at}
                    IN  /\ interval > 0
                        /\ (interval >= min_duration_sec) <=> (hits # {})
                        /\ \A k \in hits :
                               /\ desats[k].duration_sec = interval
                               /\ desats[k].end_time_local = at + interval

\* A lone below-threshold sample between two samples at threshold, in a
\* frame with irregular spacing, emitted under a positive minimum duration.
C9_Witness ==
    /\ fn = "compute_desaturations"
    /\ min_duration_sec > 0
    /\ Len(desats) = 1
    /\ LET kept == dropna(sort_values(df))
       IN  /\ \E i \in 2..(Len(kept) - 1) :
                  /\ below(kept[i], threshold)
                  /\ ~below(kept[i - 1], threshold)
                  /\ ~below(kept[i + 1], threshold)
                  /\ desats[1].start_time_local = kept[i].timestamp_local
           /\ Cardinality(Range(diff(kept))) > 1

\* ------------------------------------------------------------------- C10

\* Last timestamp minus first timestamp over all samples of the frame.
AnalysedTicks(frame) ==
    IF frame = <<>> THEN 0
    ELSE SetMax(Timestamps(frame)) - SetMin(Timestamps(frame))

\* C10: odi of summarize_session is events_count / analysed hours when
\* the analysed duration (last minus first timestamp over all samples) is
\* positive, and exactly 0 otherwise, as for a single-sample session.
C10_Odi ==
    fn = "summarize_session" =>
        LET ticks == AnalysedTicks(df)
        IN  /\ summary.analysed_duration_hours[1] * Sec(3600)
                   = ticks * summary.analysed_duration_hours[2]
            /\ ticks > 0 =>
                   /\ summary.odi[2] > 0
                   /\ summary.odi[1] * ticks
                          = summary.events_count * Sec(3600) * summary.odi[2]
            /\ ticks <= 0 => summary.odi = <<0, 1>>

\* A single-sample session with one (zero-length) event: odi is 0.
C10_Witness ==
    /\ fn = "summarize_session"
    /\ Len(df) = 1
    /\ summary.events_count = 1
    /\ summary.odi = <<0, 1>>

\* A session with a positive analysed duration and a positive odi.
C10_WitnessPositive ==
    /\ fn = "summarize_session"
    /\ AnalysedTicks(df) > 0
    /\ summary.events_count = 2
    /\ summary.odi[1] > 0

\* ------------------------------------------------ C11: null readings

\* C11: when no sample carries a non-null spo2, compute_desaturations
\* returns no event and summarize_session reports spo2_min and spo2_mean
\* as None; hr_min and hr_mean are None exactly when no sample carries a
\* non-null hr, whatever the spo2 column holds.
C11_NullColumns ==
    LET no_spo2 == \A i \in 1..Len(df) : df[i].spo2 = NaN
        no_hr == \A i \in 1..Len(df) : df[i].hr = NaN
    IN  /\ (fn = "compute_desaturations" /\ no_spo2) => desats = <<>>
        /\ (fn = "summarize_session" /\ no_spo2) =>
               /\ summary.spo2_min = NaN
               /\ summary.spo2_mean = <<>>
               /\ summary.events_count = 0
        /\ fn = "summarize_session" =>
               /\ (summary.hr_min = NaN) <=> no_hr
               /\ (summary.hr_mean = <<>>) <=> no_hr
               /\ (summary.spo2_min = NaN) <=> no_spo2
               /\ (summary.spo2_mean = <<>>) <=> no_spo2

\* A session of several samples, none with an spo2 reading and one with an
\* hr reading: the spo2 fields are None and the hr fields are not.
C11_Witness ==
    /\ fn = "summarize_session"
    /\ Len(df) >= 2
    /\ \A i \in 1..Len(df) : df[i].spo2 = NaN
    /\ \E i \in 1..Len(df) : df[i].hr # NaN
    /\ \E i \in 1..Len(df) : df[i].hr = NaN
    /\ summary.spo2_min = NaN
    /\ summary.hr_min # NaN

\* The converse case: spo2 readings and no hr reading at all.
C11_WitnessNoHr ==
    /\ fn = "summarize_session"
    /\ Len(df) >= 2
    /\ \A i \in 1..Len(df) : df[i].hr = NaN
    /\ \E i \in 1..Len(df) : df[i].spo2 # NaN
    /\ summary.hr_mean = <<>>
    /\ summary.spo2_mean # <<>>

\* ------------------------------------------------ C12: empty session

\* C12: a session with no sample raises nothing and gives the zero
\* results: no event, 0 s and fraction 0 below the threshold, and a
\* summary of 0 analysed hours, None for the four extrema and means, 0 s
\* and fraction 0 below, 0 events and an ODI of 0.
C12_EmptySession ==
    df = <<>> =>
        /\ fn = "compute_desaturations" => desats = <<>>
        /\ fn = "compute_time_below_threshold" =>
               /\ below_stats.total_seconds_below = 0
               /\ below_stats.fraction_of_analysed_time = <<0, 1>>
        /\ fn = "summarize_session" =>
               /\ summary.analysed_duration_hours = <<0, 1>>
               /\ summary.spo2_min = NaN
               /\ summary.spo2_mean = <<>>
               /\ summary.hr_min = NaN
               /\ summary.hr_mean = <<>>
               /\ summary.time_below_threshold_sec = 0
               /\ summary.time_below_threshold_fraction = <<0, 1>>
               /\ summary.events_count = 0
               /\ summary.odi = <<0, 1>>

\* summarize_session has returned for the empty session.
C12_Witness ==
    /\ df = <<>>
    /\ fn = "summarize_session"
    /\ threshold = 91
    /\ summary.odi = <<0, 1>>
    /\ summary.spo2_min = NaN

\* compute_time_below_threshold has returned for the empty session.
C12_WitnessTimeBelow ==
    /\ df = <<>>
    /\ fn = "compute_time_below_threshold"
    /\ below_stats.total_seconds_below = 0

\* ------------------------------------------------ C13: degenerate timing

\* The first and the last timestamp of the session coincide.
Degenerate(frame) ==
    /\ frame # <<>>
    /\ SetMax(Timestamps(frame)) = SetMin(Timestamps(frame))

\* C13: when the first and last timestamps of a session coincide (one
\* sample, or several samples with one timestamp) the analysed duration is
\* 0 and nothing is divided by it: the time-below fraction is exactly 0
\* and summarize_session returns a record, with 0 analysed hours and an
\* ODI of 0, for every SpO2 content and threshold; with fewer than two
\* samples the interval estimate is 0, so a single sample below the
\* threshold counts 0 s below and forms an event of duration 0.
C13_DegenerateTiming ==
    Degenerate(df) =>
        /\ fn = "compute_time_below_threshold" =>
               /\ below_stats.fraction_of_analysed_time = <<0, 1>>
               /\ Len(df) < 2 => below_stats.total_seconds_below = 0
        /\ fn = "summarize_session" =>
               /\ summary.time_below_threshold_fraction = <<0, 1>>
               /\ summary.analysed_duration_hours = <<0, 1>>
               /\ summary.odi = <<0, 1>>
               /\ summary.events_count = Len(compute_desaturations(
                                               df, threshold, min_duration_sec))
               /\ Len(df) < 2 => summary.time_below_threshold_sec = 0
        /\ (fn = "compute_desaturations" /\ Len(df) < 2) =>
               \A k \in 1..Len(desats) :
                   /\ desats[k].duration_sec = 0
                   /\ desats[k].end_time_local = desats[k].start_time_local

\* Several samples share the one timestamp of the session, some of them
\* below the threshold, and summarize_session has returned.
C13_Witness ==
    /\ fn = "summarize_session"
    /\ Len(df) >= 3
    /\ Degenerate(df)
    /\ \E i \in 1..Len(df) : below(df[i], threshold)
    /\ \E i \in 1..Len(df) : ~below(df[i], threshold)
    /\ summary.time_below_threshold_fraction = <<0, 1>>

\* A single sample below the threshold forms an event of duration 0.
C13_WitnessSingle ==
    /\ fn = "compute_desaturations"
    /\ Len(df) = 1
    /\ Len(desats) = 1
    /\ desats[1].duration_sec = 0

\* ------------------------------------------------ C14: sleep date

\* The local wall-clock reading of the instant dt denotes, a naive dt
\* being read as UTC.
LocalWall(d) ==
    LET instant == IF d.tzinfo = <<>> THEN d.wall ELSE d.wall - d.tzinfo[1]
    IN  instant + UtcOffset(instant)

\* C14: compute_sleep_date returns the previous local calendar day when
\* the local time of day is strictly before 12:01:00 and the current local
\* day from 12:01:00 on; so the instants whose local time lies in
\* [12:01 of day D, 12:01 of day D+1) are exactly those mapped to D; a
\* naive datetime gives what the same reading tagged UTC gives.
C14_SleepDate ==
    sleep_date # NoDate =>
        LET local == LocalWall(dt)
            today == local \div Day
            time_of_day == local - today * Day
        IN  /\ time_of_day < Cutoff => sleep_date = today - 1
            /\ time_of_day >= Cutoff => sleep_date = today
            /\ sleep_date * Day + Cutoff <= local
            /\ local < (sleep_date + 1) * Day + Cutoff
            /\ dt.tzinfo = <<>> =>
                   sleep_date = compute_sleep_date([dt EXCEPT !.tzinfo = <<0>>])

\* An instant at local 12:01:00 exactly, in daylight time, mapped to the
\* current local day.
C14_Witness ==
    /\ sleep_date # NoDate
    /\ LocalWall(dt) % Day = Cutoff
    /\ UtcOffset(dt.wall) = -(5 * Hour)
    /\ dt.tzinfo = <<0>>
    /\ sleep_date = LocalWall(dt) \div Day

\* A naive datetime one second before the cutoff, mapped to the day before.
C14_WitnessBefore ==
    /\ sleep_date # NoDate
    /\ dt.tzinfo = <<>>
    /\ LocalWall(dt) % Day = Cutoff - 1
    /\ sleep_date = (LocalWall(dt) \div Day) - 1

\* ------------------------------------------------ C15: one session a night

\* C15: whatever the interleaving of the touch_session calls of the
\* logger and of the migration, table sessions holds at most one row for
\* a (user_id, sleep_date) pair, and every call for one pair returns one
\* and the same session id.
C15_OneSessionPerNight ==
    /\ \A i, j \in 1..Len(sessions) :
           (/\ sessions[i].user_id = sessions[j].user_id
            /\ sessions[i].sleep_date = sessions[j].sleep_date) => i = j
    /\ \A a, b \in touched : a[1] = b[1] => a[2] = b[2]

\* The calls of one process alone keep to one row a night: a second row
\* for a pair appears only when both processes ran touch_session for it.
C15_DuplicateNeedsTwoWriters ==
    \A i, j \in 1..Len(sessions) :
        (i # j /\ sessions[i].sleep_date = sessions[j].sleep_date) =>
            /\ logger.lines > 0
            /\ migration.pc # "idle"
            /\ <<sessions[i].sleep_date, i>> \in touched
            /\ <<sessions[j].sleep_date, j>> \in touched

\* ------------------------------------------------ C16: session span

\* No get_or_create_session_id or insert_sample call is under way.
NoCallInProgress ==
    \A p \in Writers : Writer(p).pc \notin {"insert_session", "update_end"}

\* The timestamps of the samples stored in a session.
SampleTimes(session_id) ==
    {samples[i].timestamp_utc :
        i \in {k \in 1..Len(samples) : samples[k].session_id = session_id}}

\* C16: after any sequence of get_or_create_session_id and insert_sample
\* calls, in any order of timestamps, the start_time_utc of every session
\* is the earliest and its end_time_utc the latest timestamp of the
\* samples stored in it.
C16_SessionSpansSamples ==
    NoCallInProgress =>
        \A id \in 1..Len(sessions) :
            SampleTimes(id) # {} =>
                /\ sessions[id].start_time_utc = SetMin(SampleTimes(id))
                /\ sessions[id].end_time_utc = SetMax(SampleTimes(id))

\* What the code does keep: the end time is the timestamp of the sample
\* inserted last (by rowid) once its update is done, whenever one writer
\* at a time uses the session.
C16_EndIsLastInserted ==
    (logger.pc = "idle" /\ migration.pc \in {"idle", "failed", "done"}) =>
        \A id \in 1..Len(sessions) :
            SampleTimes(id) # {} =>
                \E i \in 1..Len(samples) :
                    /\ samples[i].session_id = id
                    /\ sessions[id].end_time_utc = samples[i].timestamp_utc

\* ------------------------------------------------ C17: concurrent reads

\* The six fields of the samples inserted into a session, in the order of
\* their inserts.
Inserted(session_id) ==
    LET rows == SelectSeq(samples, LAMBDA r : r.session_id = session_id)
    IN  [i \in 1..Len(rows) |->
            [timestamp_utc |-> rows[i].timestamp_utc, spo2 |-> rows[i].spo2,
             hr |-> rows[i].hr, pi |-> rows[i].pi,
             movement |-> rows[i].movement, battery |-> rows[i].battery]]

\* The six stored fields of the rows of the frame the reader holds.
ReadRows ==
    [i \in 1..Len(reader.result.rows) |->
        [timestamp_utc |-> reader.result.rows[i].timestamp_utc,
         spo2 |-> reader.result.rows[i].spo2,
         hr |-> reader.result.rows[i].hr,
         pi |-> reader.result.rows[i].pi,
         movement |-> reader.result.rows[i].movement,
         battery |-> reader.result.rows[i].battery]]

IsPermutation(s, t) ==
    /\ Len(s) = Len(t)
    /\ \E f \in [1..Len(s) -> 1..Len(s)] :
           /\ \A i, j \in 1..Len(s) : f[i] = f[j] => i = j
           /\ \A i \in 1..Len(s) : s[i] = t[f[i]]

\* C17 as stated: while writers insert samples one at a time, every read
\* of the session returns whole samples only, and the sequence returned is
\* a prefix of the sequence of the inserts.
C17_ReadIsPrefixOfInserts ==
    (reader.pc = "done" /\ reader.session_id # 0) =>
        /\ Len(ReadRows) <= Len(Inserted(reader.session_id))
        /\ ReadRows = SubSeq(Inserted(reader.session_id), 1, Len(ReadRows))

\* C17 amended: every read returns whole samples only, and the sequence
\* returned holds exactly the samples of a prefix of the sequence of the
\* inserts, arranged by ascending timestamp; it is that prefix itself
\* when the inserts of the prefix were made in ascending timestamp order.
C17_ReadIsOrderedPrefix ==
    (reader.pc = "done" /\ reader.session_id # 0) =>
        LET inserted == Inserted(reader.session_id)
            n == Len(ReadRows)
        IN  /\ n <= Len(inserted)
            /\ IsPermutation(ReadRows, SubSeq(inserted, 1, n))
            /\ \A i \in 1..(n - 1) :
                   ReadRows[i].timestamp_utc <= ReadRows[i + 1].timestamp_utc
            /\ (\A i \in 1..(n - 1) :
                    inserted[i].timestamp_utc < inserted[i + 1].timestamp_utc)
                   => ReadRows = SubSeq(inserted, 1, n)

\* A read returned two samples that were inserted latest first, and the
\* writer has inserted a further sample into the session since.
C17_Witness ==
    /\ reader.pc = "done"
    /\ reader.session_id # 0
    /\ Len(ReadRows) = 2
    /\ Inserted(reader.session_id)[1].timestamp_utc
           > Inserted(reader.session_id)[2].timestamp_utc
    /\ Len(Inserted(reader.session_id)) > 2

\* A read fell between the INSERT of a sample and the update of the end
\* time of its session.
C17_WitnessMidInsert ==
    /\ reader.pc = "done"
    /\ Len(ReadRows) >= 1
    /\ \E p \in Writers :
           /\ Writer(p).pc = "update_end"
           /\ Writer(p).session_id = reader.session_id
           /\ reader.seen = Len(samples)

\* ------------------------------------------------ C18: reading a session

\* The six fields of the samples inserted, up to the reader's last
\* statement, for the session the reader asked for: the samples whose
\* sessions row carries the reader's (user_id, sleep_date), in insert order.
InsertedForNight ==
    LET rows == SelectSeq(SubSeq(samples, 1, reader.seen),
                          LAMBDA r :
                              /\ sessions[r.session_id].user_id = DEFAULT_USER_ID
                              /\ sessions[r.session_id].sleep_date
                                     = reader.sleep_date)
    IN  [i \in 1..Len(rows) |->
            [timestamp_utc |-> rows[i].timestamp_utc, spo2 |-> rows[i].spo2,
             hr |-> rows[i].hr, pi |-> rows[i].pi,
             movement |-> rows[i].movement, battery |-> rows[i].battery]]

\* C18: load_session_samples(user_id, sleep_date) returns exactly the
\* samples inserted for that session, by ascending timestamp whatever the
\* order of the inserts, and a frame with no row and the full column set
\* both when the session does not exist and when it holds no sample.
C18_LoadReturnsTheSession ==
    reader.pc = "done" =>
        /\ reader.result.columns = Columns
        /\ IsPermutation(ReadRows, InsertedForNight)
        /\ \A i \in 1..(Len(ReadRows) - 1) :
               ReadRows[i].timestamp_utc <= ReadRows[i + 1].timestamp_utc
        /\ reader.session_id = 0 => reader.result.rows = <<>>

\* The statement holds as long as table sessions has one row a night.
C18_HoldsWithOneRowPerNight ==
    (\A i, j \in 1..Len(sessions) :
        sessions[i].sleep_date = sessions[j].sleep_date => i = j)
        => C18_LoadReturnsTheSession

\* With one row a night: a read of samples inserted latest first.
C18_ReadOutOfOrderInserts ==
    /\ reader.pc = "done"
    /\ Len(sessions) = 1
    /\ Len(ReadRows) = 2
    /\ InsertedForNight[1].timestamp_utc > InsertedForNight[2].timestamp_utc

\* With one row a night: a read of a session that exists and holds no
\* sample yet.
C18_ReadEmptySession ==
    /\ reader.pc = "done"
    /\ reader.session_id # 0
    /\ reader.seen = 0
    /\ reader.result = EmptyFrame

\* ------------------------------------------------ C19: malformed CSV

\* File k of the migrated directory lacks a required column.
Malformed(k) == EXPECTED_COLUMNS \ migration.dir[k].columns # {}

\* C19: a CSV file lacking a required column stops the migration run with
\* an error before any of its rows is inserted: once the run has come to
\* such a file it has failed there and stays there; no sample comes from
\* that file or from a later one, the files after it are never entered,
\* and every row of the files before it is in the store.
C19_MalformedCsvIsFatal ==
    /\ \A k \in 1..Len(migration.dir) :
           (Malformed(k) /\ migration.file >= k) =>
               /\ migration.pc = "failed"
               /\ migration.file = k
    /\ migration.pc = "failed" =>
           /\ Malformed(migration.file)
           /\ \A i \in 1..Len(samples) : samples[i].src < migration.file
           /\ \A k \in 1..(migration.file - 1) :
                  \A n \in 1..Len(migration.dir[k].rows) :
                      \E i \in 1..Len(samples) :
                          /\ samples[i].timestamp_utc = migration.dir[k].rows[n]
                          /\ sessions[samples[i].session_id].sleep_date
                                 = SleepDateOf(migration.dir[k].rows[n])

\* The run failed at the second file after it inserted the rows of the
\* first.
C19_Witness ==
    /\ migration.pc = "failed"
    /\ migration.file = 2
    /\ \E i \in 1..Len(samples) : samples[i].src = 1

\* The run failed at the first file; the complete file after it was never
\* entered and the tables are empty.
C19_WitnessFirstFile ==
    /\ migration.pc = "failed"
    /\ migration.file = 1
    /\ Len(migration.dir) = 2
    /\ ~Malformed(2)
    /\ logger.lines = 0
    /\ samples = <<>>
    /\ sessions = <<>>

\* ------------------------------------------------ C21: time below and filter

\* C21: for fixed samples and threshold, summarize_session returns the
\* same time_below_threshold_sec and time_below_threshold_fraction for
\* every min_duration_sec, namely those of compute_time_below_threshold:
\* the runs too short to be events still count towards the total.
C21_TimeBelowIgnoresMinDuration ==
    fn = "summarize_session" =>
        /\ \A m \in MinDurations :
               LET other == summarize_session(df, threshold, m)
               IN  /\ other.time_below_threshold_sec
                          = summary.time_below_threshold_sec
                   /\ other.time_below_threshold_fraction
                          = summary.time_below_threshold_fraction
        /\ summary.time_below_threshold_sec
               = compute_time_below_threshold(df, threshold).total_seconds_below
        /\ summary.time_below_threshold_fraction
               = compute_time_below_threshold(df, threshold)
                     .fraction_of_analysed_time

\* Every below-threshold run is shorter than the minimum duration, so no
\* event is counted, and the time below threshold is positive all the same.
C21_Witness ==
    /\ fn = "summarize_session"
    /\ min_duration_sec = Sec(8)
    /\ summary.events_count = 0
    /\ summary.time_below_threshold_sec > 0
    /\ Len(compute_desaturations(df, threshold, Sec(0))) >= 2

\* ------------------------------------------------ C22: event invariants

\* C22: every event compute_desaturations emits has start_time_local <=
\* end_time_local, duration_sec = end_time_local - start_time_local,
\* duration_sec >= min_duration_sec and nadir_spo2 <= mean_spo2 <
\* threshold.
C22_EventInvariants ==
    fn = "compute_desaturations" =>
        \A k \in 1..Len(desats) :
            LET e == desats[k]
            IN  /\ e.start_time_local <= e.end_time_local
                /\ e.duration_sec = e.end_time_local - e.start_time_local
                /\ e.duration_sec >= min_duration_sec
                /\ e.nadir_spo2 * e.mean_spo2[2] <= e.mean_spo2[1]
                /\ e.mean_spo2[1] < threshold * e.mean_spo2[2]

\* An event of several samples with different readings, kept by a
\* positive minimum duration, in a frame with irregular spacing.
C22_Witness ==
    /\ fn = "compute_desaturations"
    /\ min_duration_sec > 0
    /\ threshold = 91
    /\ Unsorted(df)
    /\ \E k \in 1..Len(desats) :
           /\ desats[k].nadir_spo2 * desats[k].mean_spo2[2]
                  < desats[k].mean_spo2[1]
           /\ desats[k].duration_sec > min_duration_sec

\* ------------------------------------------------ C23: growing session

\* The events compute_desaturations emits for the frame prefix whose run
\* is closed in it: a non-null sample at or above the threshold follows
\* the run in the prefix.
ClosedEvents(prefix, t, m) ==
    LET rows == dropna(sort_values(prefix))
        sample_interval == _estimate_sample_interval(rows)
        groups == SelectSeq(BelowGroups(rows, t),
                            LAMBDA g : g.last < Len(rows))
        events == [k \in 1..Len(groups) |->
                      Event(rows, groups[k], sample_interval)]
    IN  SelectSeq(events, LAMBDA e : ~Discarded(e.duration_sec, m))

\* The session as it was when only its k earliest samples had arrived.
EarlierSession(k) == SubSeq(sort_values(df), 1, k)

\* C23: an event whose run is closed in a prefix of the session is
\* emitted again, with the same start_time, end_time and duration_sec,
\* when compute_desaturations is recomputed with the same threshold and
\* min_duration_sec after later samples have arrived.
C23_ClosedEventsAreStable ==
    fn = "compute_desaturations" =>
        \A k \in 1..Len(df) :
            LET closed == ClosedEvents(EarlierSession(k), threshold,
                                       min_duration_sec)
            IN  \A n \in 1..Len(closed) :
                    \E j \in 1..Len(desats) :
                        /\ desats[j].start_time_local
                               = closed[n].start_time_local
                        /\ desats[j].end_time_local = closed[n].end_time_local
                        /\ desats[j].duration_sec = closed[n].duration_sec

\* What does stay as the session grows: without a minimum duration, a
\* closed run is emitted again with the same start, nadir and mean.
C23_ClosedRunsKeepTheirStart ==
    (fn = "compute_desaturations" /\ min_duration_sec = 0) =>
        \A k \in 1..Len(df) :
            LET closed == ClosedEvents(EarlierSession(k), threshold, 0)
            IN  \A n \in 1..Len(closed) :
                    \E j \in 1..Len(desats) :
                        /\ desats[j].start_time_local
                               = closed[n].start_time_local
                        /\ desats[j].nadir_spo2 = closed[n].nadir_spo2
                        /\ desats[j].mean_spo2 = closed[n].mean_spo2

\* With a constant cadence throughout, the closed events are stable.
C23_StableAtConstantCadence ==
    (\E d \in 1..Sec(5) : ConstantCadence(sort_values(df), d))
        => C23_ClosedEventsAreStable

\* ------------------------------------------------ C24: fraction range

\* C24: compute_time_below_threshold returns a fraction_of_analysed_time
\* between 0 and 1: total_seconds_below never exceeds the analysed
\* duration (last timestamp minus first), also when every sample is below
\* the threshold.
C24_FractionWithinUnit ==
    fn = "compute_time_below_threshold" =>
        LET fraction == below_stats.fraction_of_analysed_time
        IN  /\ 0 <= fraction[1]
            /\ fraction[1] <= fraction[2]
            /\ below_stats.total_seconds_below <= analysed_duration_seconds(df)

\* What does hold: the fraction is never negative, and the total exceeds
\* the time from the first to the last below-threshold sample by one
\* estimated interval per run.
C24_FractionNotNegative ==
    fn = "compute_time_below_threshold" =>
        /\ below_stats.fraction_of_analysed_time[1] >= 0
        /\ below_stats.fraction_of_analysed_time[2] > 0
        /\ below_stats.total_seconds_below >= 0
        /\ below_stats.total_seconds_below
               <= analysed_duration_seconds(df)
                    + Len(BelowGroups(sort_values(df), threshold))
                        * _estimate_sample_interval(sort_values(df))

\* ------------------------------------------- C25: monotone in threshold

\* C25: total_seconds_below of compute_time_below_threshold does not
\* decrease when the threshold is raised, also when the higher threshold
\* merges two runs separated by samples spaced more closely than the
\* estimated interval.
C25_MonotoneInThreshold ==
    fn = "compute_time_below_threshold" =>
        \A lower \in Thresholds :
            (lower <= threshold) =>
                compute_time_below_threshold(df, lower).total_seconds_below
                    <= below_stats.total_seconds_below

\* What does hold: raising the threshold never removes a sample from the
\* below-threshold set, and never lowers the total by more than one
\* estimated interval per run that was merged away.
C25_LossBoundedByMergedRuns ==
    fn = "compute_time_below_threshold" =>
        \A lower \in Thresholds :
            (lower <= threshold) =>
                LET rows == sort_values(df)
                    merged == Len(BelowGroups(rows, lower))
                                - Len(BelowGroups(rows, threshold))
                IN  /\ \A i \in 1..Len(rows) :
                           below(rows[i], lower) => below(rows[i], threshold)
                    /\ compute_time_below_threshold(df, lower).total_seconds_below
                           <= below_stats.total_seconds_below
                                + (IF merged > 0 THEN merged ELSE 0)
                                    * _estimate_sample_interval(rows)

\* ------------------------------------------- C26: migration idempotence

\* The pairs of sample rows that the migration inserted with one
\* timestamp: the later row of a pair is a sample that a run of
\* migrate_file inserted although an earlier run (or an earlier row of the
\* same file) had stored that timestamp.
MigratedTwice ==
    {p \in (1..Len(samples)) \X (1..Len(samples)) :
        /\ p[1] < p[2]
        /\ samples[p[1]].src # 0
        /\ samples[p[2]].src # 0
        /\ samples[p[1]].timestamp_utc = samples[p[2]].timestamp_utc}

\* C26: migrate_file is idempotent and de-duplicating: running it again
\* on the same file, or on a file repeating some of its timestamps,
\* inserts no further sample.
C26_MigrationIsIdempotent == MigratedTwice = {}

\* A timestamp is migrated twice only into two session rows of one sleep
\* date, created by the logger and the migration racing in touch_session.
C26_TwiceOnlyAcrossDuplicateSessions ==
    \A p \in MigratedTwice :
        LET a == samples[p[1]].session_id
            b == samples[p[2]].session_id
        IN  /\ a # b
            /\ sessions[a].sleep_date = sessions[b].sleep_date
            /\ logger.lines > 0

\* With no logger line handled, the migration is idempotent.
C26_IdempotentOnItsOwn == logger.lines = 0 => MigratedTwice = {}

\* ------------------------------------------------ C27: ingestion routing

\* Every stored sample lies in a session of the sleep date of its
\* timestamp.
SamplesRouted ==
    \A i \in 1..Len(samples) :
        sessions[samples[i].session_id].sleep_date
            = SleepDateOf(samples[i].timestamp_utc)

\* Every CSV file starts with its one header row, and every data row lies
\* in the file named for the sleep date of its timestamp.
CsvRouted ==
    \A f \in DOMAIN csv.files :
        LET rows == csv.files[f]
        IN  /\ Len(rows) >= 1
            /\ \A k \in 1..Len(rows) : rows[k].header <=> (k = 1)
            /\ \A k \in 2..Len(rows) :
                   csv_filename(SleepDateOf(rows[k].cells[1])) = f

\* The timestamps of the data rows of all CSV files.
CsvTimestamps ==
    UNION {{csv.files[f][k].cells[1] : k \in 2..Len(csv.files[f])} :
              f \in DOMAIN csv.files}

\* The logger's samples are the CSV rows, but for the sample of the line
\* being handled, whose row is written last.
CsvMirrorsLogger ==
    LET stored == {samples[i].timestamp_utc :
                      i \in {j \in 1..Len(samples) : samples[j].src = 0}}
    IN  /\ CsvTimestamps \subseteq stored
        /\ stored \ CsvTimestamps
               \subseteq (IF logger.pc = "update_end" THEN {logger.ts} ELSE {})
        /\ (logger.pc # "idle") =>
               /\ csv.current_sleep_date = logger.sleep_date
               /\ csv.csv_file = csv_filename(logger.sleep_date)

\* A step of the logger that ignores a line.
IgnoresLine ==
    /\ logger.pc = "idle"
    /\ logger'.pc = "idle"
    /\ logger'.lines = logger.lines + 1

\* C27: after any lines handled by _process_line and rows handled by
\* migrate_file, every stored sample belongs to the session of the sleep
\* date of its timestamp; the logger writes each CSV row to the file named
\* for that sleep date, switching files when the sleep date changes and
\* writing the header only into a file that did not exist; a line that
\* does not match the sample pattern changes neither database nor CSV.
C27_IngestionRouting ==
    /\ [](SamplesRouted /\ CsvRouted /\ CsvMirrorsLogger)
    /\ [][IgnoresLine => UNCHANGED <<sessions, samples, csv>>]_all_vars

\* The logger wrote two rows to the file of one sleep date and switched
\* to the file of the next sleep date for the third, while the migration
\* stored rows of both sleep dates.
C27_Witness ==
    /\ logger.lines = MaxIngestLines
    /\ logger.pc = "idle"
    /\ csv.csv_file = csv_filename(SleepDateOf(CutoffInstant))
    /\ csv_filename(SleepDateOf(CutoffInstant - 1)) \in DOMAIN csv.files
    /\ Len(csv.files[csv_filename(SleepDateOf(CutoffInstant - 1))]) = 3
    /\ Len(csv.files[csv.csv_file]) = 2
    /\ \E i, j \in 1..Len(samples) :
           /\ samples[i].src # 0
           /\ samples[j].src # 0
           /\ samples[i].session_id # samples[j].session_id

\* An ignored line between two readings.
C27_WitnessIgnored ==
    /\ logger.lines = MaxIngestLines
    /\ logger.pc = "idle"
    /\ Cardinality(CsvTimestamps) = 1
    /\ Len(samples) >= 2

\* ------------------------------------------- C28: BLE inactivity handling

\* ble_fail_count is the number of not-worn and calibrating notifications
\* since the last valid reading or connect, below the limit after every
\* notification; the next reconnect delay is ble_inactivity_delay from the
\* handler's disconnect to the wait after it and ble_reconnect_delay at
\* all other times.
BleCounts ==
    /\ ~InactivityLimitReached(ble_fail_count)
    /\ (peripheral = "connected") => ble_fail_count = ble_seen.streak
    /\ ble_next_reconnect_delay =
           IF ble_seen.timed_out THEN ble_inactivity_delay
           ELSE ble_reconnect_delay
    /\ ble_seen.timed_out =>
           /\ ble_pc \in {"reading", "wait", "exited"}
           /\ peripheral = "disconnected"
           /\ ble_fail_count = 0

\* The handler disconnects exactly when the count reaches
\* ble_inactivity_timeout / ble_read_period = 150.
DisconnectsAtLimit ==
    (ble_pc = "reading" /\ peripheral = "connected"
        /\ peripheral' = "disconnected" /\ ble_pc' = "reading")
    <=> (ble_seen'.timed_out /\ ~ble_seen.timed_out
            /\ ble_seen'.streak = 150
            /\ ble_seen.streak = 149)

\* Every wait takes the delay of its cause and leaves ble_reconnect_delay.
WaitsByCause ==
    (ble_pc = "wait" /\ ble_pc' = "connect") =>
        /\ ble_seen'.waited = IF ble_seen.timed_out
                              THEN ble_inactivity_delay
                              ELSE ble_reconnect_delay
        /\ ble_next_reconnect_delay' = ble_reconnect_delay
        /\ ~ble_seen'.timed_out

\* C28: ble_fail_count counts the consecutive not-worn or calibrating
\* notifications since the last valid reading or connect; at 150 the
\* handler disconnects, resets the count and sets the next reconnect
\* delay to ble_inactivity_delay; the main loop then waits that delay
\* once and restores ble_reconnect_delay, so that every other reconnect
\* waits ble_reconnect_delay; the count is below the limit after every
\* notification.
C28_InactivityHandling ==
    /\ []BleCounts
    /\ [][DisconnectsAtLimit /\ WaitsByCause]_all_vars
    /\ (ble_seen.timed_out ~>
            (ble_pc = "exited"
                \/ (ble_pc = "connect"
                       /\ ble_seen.waited = ble_inactivity_delay
                       /\ ble_next_reconnect_delay = ble_reconnect_delay)))

\* After an inactivity disconnect and its wait of 130 s, a connection is
\* lost and the loop is about to wait 1 s.
C28_Witness ==
    /\ ble_pc = "wait"
    /\ ble_seen.waited = ble_inactivity_delay
    /\ ~ble_seen.timed_out
    /\ ble_next_reconnect_delay = ble_reconnect_delay
    /\ ble_fail_count = 149

\* ------------------------------------------------ C29: event navigation

\* update_events_tab displays an event of the list whenever there is one,
\* and sets the max of the slider to the last index.
ShownInRange ==
    /\ events_shown.count > 0 =>
           /\ events_shown.index \in 0..(events_shown.count - 1)
           /\ events_index.max = events_shown.count - 1
    /\ events_shown.count = 0 => events_index.max = 0

\* C29: after any clicks on Prev and Next and any changes of night,
\* threshold or minimum duration, the index step_events returns lies in
\* 0..max_index, Prev at 0 stays at 0 and Next at max_index stays there,
\* and update_events_tab displays an event of index 0..(events - 1).
C29_NavigationInRange ==
    /\ stepped.new_index \in 0..stepped.max_index
    /\ (stepped.trigger = "events-prev" /\ stepped.current_index = 0)
           => stepped.new_index = 0
    /\ (stepped.trigger = "events-next"
           /\ stepped.current_index = stepped.max_index)
           => stepped.new_index = stepped.max_index
    /\ ShownInRange

\* What does hold: the display is in range, Next never passes max_index,
\* and the returned index is out of range only after a Prev on a slider
\* value left above a max that has shrunk.
C29_DisplayInRange ==
    /\ ShownInRange
    /\ stepped.new_index >= 0
    /\ stepped.trigger = "events-next" =>
           stepped.new_index <= stepped.max_index
    /\ stepped.current_index <= stepped.max_index =>
           stepped.new_index \in 0..stepped.max_index
    /\ (stepped.trigger = "events-prev" /\ stepped.current_index = 0)
           => stepped.new_index = 0
    /\ (stepped.trigger = "events-next"
           /\ stepped.current_index = stepped.max_index)
           => stepped.new_index = stepped.max_index

\* ------------------------------------------------ C30: the clinic app

\* load_log of sleepu_clinic_app.py on the samples of a frame: the rows
\* sorted by timestamp, each with dt_sec, the time since the row before;
\* the first row takes the median of the others, 2 s when there is none.
load_log(frame) ==
    LET rows == sort_values(frame)
        median_dt == IF Len(rows) >= 2 THEN median(diff(rows)) ELSE Sec(2)
    IN  [i \in 1..Len(rows) |->
            [timestamp |-> rows[i].timestamp_local,
             spo2 |-> rows[i].spo2,
             hr |-> rows[i].hr,
             dt_sec |-> IF i = 1 THEN median_dt
                        ELSE rows[i].timestamp_local
                                 - rows[i - 1].timestamp_local]]

\* detect_desaturation_events of sleepu_clinic_app.py: the events of the
\* segments below thresh whose summed dt_sec reaches min_duration.
detect_desaturation_events(log, thresh, min_duration) ==
    LET segments == BelowGroups(log, thresh)
        duration(g) ==
            SumSeq([i \in 1..(g.last - g.first + 1) |->
                       log[g.first + i - 1].dt_sec])
        readings(g) ==
            [i \in 1..(g.last - g.first + 1) |-> log[g.first + i - 1].spo2]
        kept == SelectSeq(segments, LAMBDA g : ~(duration(g) < min_duration))
    IN  [k \in 1..Len(kept) |->
            [start_time |-> log[kept[k].first].timestamp,
             end_time |-> log[kept[k].last].timestamp,
             duration_sec |-> duration(kept[k]),
             nadir_spo2 |-> MinSeq(readings(kept[k])),
             mean_spo2 |-> Quot(SumSeq(readings(kept[k])),
                                Len(readings(kept[k])))]]

\* The events of the clinic app for the frame and arguments of the call.
ClinicEvents == detect_desaturation_events(load_log(df), threshold,
                                           min_duration_sec)

\* C30: for every frame without nulls (both functions take it in time
\* order), threshold and minimum duration, detect_desaturation_events and
\* compute_desaturations return the same number of events, with the same
\* start times, durations, nadirs and means.
C30_ClinicAgreesWithCore ==
    (fn = "compute_desaturations" /\ ~HasNull(df)) =>
        /\ Len(ClinicEvents) = Len(desats)
        /\ \A k \in 1..Len(desats) :
               /\ ClinicEvents[k].start_time = desats[k].start_time_local
               /\ ClinicEvents[k].duration_sec = desats[k].duration_sec
               /\ ClinicEvents[k].nadir_spo2 = desats[k].nadir_spo2
               /\ ClinicEvents[k].mean_spo2 = desats[k].mean_spo2

\* What does hold: at a constant cadence the two agree in all of that.
C30_AgreeAtConstantCadence ==
    (\E d \in 1..Sec(5) : ConstantCadence(df, d)) => C30_ClinicAgreesWithCore

\* The two disagree on frames of two and more samples as well.
C30_AgreeFromTwoSamples ==
    Len(df) >= 2 => C30_ClinicAgreesWithCore

\* What does hold: without a minimum duration the two find the same
\* runs, with the same start, nadir and mean.
C30_SameRunsWithoutMinimum ==
    (fn = "compute_desaturations" /\ ~HasNull(df)
        /\ min_duration_sec = 0) =>
        /\ Len(ClinicEvents) = Len(desats)
        /\ \A k \in 1..Len(desats) :
               /\ ClinicEvents[k].start_time = desats[k].start_time_local
               /\ ClinicEvents[k].nadir_spo2 = desats[k].nadir_spo2
               /\ ClinicEvents[k].mean_spo2 = desats[k].mean_spo2

====
